---- MODULE Spec2Model ----
(***************************************************************************)
(* The Python command terminal: a shell that takes literal commands or     *)
(* natural-language requests, resolves the latter to a command and runs    *)
(* file operations in its working directory.                               *)
(*                                                                         *)
(* A session runs one of two front ends:                                   *)
(*   "cli"  PythonTerminal of main.py,                                     *)
(*   "web"  the terminal class of streamlit_app.py (lines 359-920).        *)
(* The first Streamlit page of streamlit_app.py (lines 1-357) only         *)
(* simulates commands and keeps no file state; no session here runs it.    *)
(*                                                                         *)
(* A Python str is a sequence of one-character strings, so that substring  *)
(* tests, lower(), strip() and split() are computed and not assumed.  A    *)
(* command line is such a str; a resolved command is a str too, and is     *)
(* split again when execute_command is called on it.                       *)
(***************************************************************************)
EXTENDS Integers, Sequences, FiniteSets, TLC

\* ------------------------------------------------------------------ str

UpperCase == <<"A","B","C","D","E","F","G","H","I","J","K","L","M",
               "N","O","P","Q","R","S","T","U","V","W","X","Y","Z">>

LowerCase == <<"a","b","c","d","e","f","g","h","i","j","k","l","m",
               "n","o","p","q","r","s","t","u","v","w","x","y","z">>

\* str.lower()
lower(s) ==
  [i \in 1..Len(s) |->
     IF \E k \in DOMAIN UpperCase : UpperCase[k] = s[i]
     THEN LowerCase[CHOOSE k \in DOMAIN UpperCase : UpperCase[k] = s[i]]
     ELSE s[i]]

\* sub in s, for two strs
str_in(sub, s) ==
  \E i \in 0..(Len(s) - Len(sub)) : SubSeq(s, i + 1, i + Len(sub)) = sub

\* x in [a, b, ...], for a Python list
list_in(x, lst) == \E i \in DOMAIN lst : lst[i] = x

\* s.strip(chars)
strip(s, chars) ==
  LET keep == {i \in 1..Len(s) : s[i] \notin chars}
  IN  IF keep = {} THEN <<>>
      ELSE SubSeq(s, CHOOSE i \in keep : \A j \in keep : i <= j,
                     CHOOSE i \in keep : \A j \in keep : j <= i)

\* the argument of the strip('"\'') calls
Quotes == {"\"", "'"}

\* sep.join(words)
RECURSIVE join(_, _)
join(sep, words) ==
  IF words = <<>> THEN <<>>
  ELSE IF Len(words) = 1 THEN words[1]
  ELSE words[1] \o sep \o join(sep, Tail(words))

\* s.split(ch) for a one-character separator
RECURSIVE split(_, _)
split(s, ch) ==
  IF \A i \in 1..Len(s) : s[i] # ch THEN <<s>>
  ELSE LET k == CHOOSE i \in 1..Len(s) : s[i] = ch /\ \A j \in 1..(i - 1) : s[j] # ch
       IN  <<SubSeq(s, 1, k - 1)>> \o split(SubSeq(s, k + 1, Len(s)), ch)

\* ----------------------------------------------------------- filesystem
\* The filesystem is a function from the absolute paths that exist (a path
\* is the sequence of its names, <<>> the root) to what is there.

DirNode == [kind |-> "dir", content |-> <<>>]

FileNode(c) == [kind |-> "file", content |-> c]

parent(p) == IF p = <<>> THEN <<>> ELSE SubSeq(p, 1, Len(p) - 1)

is_prefix(p, q) == Len(p) <= Len(q) /\ SubSeq(q, 1, Len(p)) = p

\* os.path.join(current_directory, name): the segments from the root; an
\* absolute name replaces the directory it is joined to
os_path_join(cwd, name) ==
  IF name # <<>> /\ name[1] = "/" THEN split(name, "/")
  ELSE cwd \o split(name, "/")

\* The kernel's walk along the segments: every directory it goes through
\* must exist; "." and the empty segment stay, ".." goes to the parent.
\* The last name need not exist.
RECURSIVE walk(_, _, _)
walk(f, cur, segs) ==
  IF segs = <<>> THEN [err |-> "", path |-> cur]
  ELSE IF cur \notin DOMAIN f THEN [err |-> "ENOENT", path |-> cur]
  ELSE IF f[cur].kind # "dir" THEN [err |-> "ENOTDIR", path |-> cur]
  ELSE IF Head(segs) \in {<<>>, <<".">>} THEN walk(f, cur, Tail(segs))
  ELSE IF Head(segs) = <<".", ".">> THEN walk(f, parent(cur), Tail(segs))
  ELSE walk(f, cur \o <<Head(segs)>>, Tail(segs))

\* os.path.isfile(path), os.path.isdir(path): False on any error
isfile(f, segs) ==
  LET r == walk(f, <<>>, segs)
  IN  r.err = "" /\ r.path \in DOMAIN f /\ f[r.path].kind = "file"

isdir(f, segs) ==
  LET r == walk(f, <<>>, segs)
  IN  r.err = "" /\ r.path \in DOMAIN f /\ f[r.path].kind = "dir"

\* os.listdir(p) for an existing directory p: the names of its children
children(f, p) == {q \in DOMAIN f : Len(q) = Len(p) + 1 /\ is_prefix(p, q)}

listdir(f, p) == {q[Len(q)] : q \in children(f, p)}

\* os.remove(path), os.rmdir(path) on a path that was just tested
remove_entry(f, p) == [q \in DOMAIN f \ {p} |-> f[q]]

\* shutil.rmtree(path): the directory and everything below it
rmtree(f, p) == [q \in {x \in DOMAIN f : ~is_prefix(p, x)} |-> f[q]]

\* open(path, mode) for writing: 'a' keeps what is there, 'w' truncates and
\* writes.  err is "" on success.
open_write(f, segs, mode, text) ==
  LET r == walk(f, <<>>, segs)
  IN  IF r.err # "" THEN [err |-> r.err, fs |-> f]
      ELSE IF r.path \in DOMAIN f /\ f[r.path].kind = "dir"
        THEN [err |-> "EISDIR", fs |-> f]
      ELSE IF r.path \in DOMAIN f /\ mode = "a" THEN [err |-> "", fs |-> f]
      ELSE [err |-> "",
            fs |-> [q \in DOMAIN f \cup {r.path} |->
                      IF q = r.path
                      THEN FileNode(IF mode = "a" THEN <<>> ELSE text)
                      ELSE f[q]]]

\* open(path, 'r').read()
open_read(f, segs) ==
  LET r == walk(f, <<>>, segs)
  IN  IF r.err # "" THEN [err |-> r.err, text |-> <<>>]
      ELSE IF r.path \notin DOMAIN f THEN [err |-> "ENOENT", text |-> <<>>]
      ELSE IF f[r.path].kind = "dir" THEN [err |-> "EISDIR", text |-> <<>>]
      ELSE [err |-> "", text |-> f[r.path].content]

\* os.makedirs(path, exist_ok=True): creates every missing directory along
\* the segments; the ones made before an error stay.
RECURSIVE makedirs(_, _, _)
makedirs(f, cur, segs) ==
  IF segs = <<>> THEN [err |-> "", fs |-> f]
  ELSE IF Head(segs) \in {<<>>, <<".">>} THEN makedirs(f, cur, Tail(segs))
  ELSE IF Head(segs) = <<".", ".">> THEN makedirs(f, parent(cur), Tail(segs))
  ELSE LET p == cur \o <<Head(segs)>>
       IN  IF p \in DOMAIN f
           THEN IF f[p].kind = "dir" THEN makedirs(f, p, Tail(segs))
                ELSE [err |-> IF Tail(segs) = <<>> THEN "EEXIST" ELSE "ENOTDIR",
                      fs |-> f]
           ELSE makedirs([q \in DOMAIN f \cup {p} |->
                            IF q = p THEN DirNode ELSE f[q]], p, Tail(segs))

\* -------------------------------------------------------------- handlers
\* A handler takes the front end a, the filesystem f, the working directory
\* and the arguments, and gives the filesystem it leaves and one message
\* per target.  A message is the kind of the line the code prints or
\* returns, the target it names and, for cat and echo, the text shown.

Msg(kind, target, text) == [kind |-> kind, target |-> target, text |-> text]

Usage == [kind |-> "usage", target |-> <<>>, text |-> <<>>]

\* the kinds that report a failure (the lines printed in red / starting with a cross)
FailureKinds ==
  {"usage", "error", "not_found", "is_directory", "dir_not_found", "not_empty"}

\* rm_one made recursive: a directory goes with everything below it
rm_one_recursive(a, f, cwd, filename) ==
  LET path == os_path_join(cwd, filename)
      r == walk(f, <<>>, path)
  IN  IF r.err = "" /\ r.path \in DOMAIN f /\ r.path # <<>>
      THEN [fs |-> rmtree(f, r.path), msg |-> Msg("removed", filename, <<>>)]
      ELSE [fs |-> f, msg |-> Msg("not_found", filename, <<>>)]

\* the body of the loop of cmd_rm
rm_one(a, f, cwd, filename) ==
  LET path == os_path_join(cwd, filename)
  IN  IF isfile(f, path)
      THEN [fs |-> remove_entry(f, walk(f, <<>>, path).path),
            msg |-> Msg("removed", filename, <<>>)]
      ELSE IF a = "web" /\ isdir(f, path)
      THEN [fs |-> f, msg |-> Msg("is_directory", filename, <<>>)]
      ELSE [fs |-> f, msg |-> Msg("not_found", filename, <<>>)]

RECURSIVE rm_loop(_, _, _, _)
rm_loop(a, f, cwd, args) ==
  IF args = <<>> THEN [fs |-> f, results |-> <<>>]
  ELSE LET one == rm_one(a, f, cwd, Head(args))
           rest == rm_loop(a, one.fs, cwd, Tail(args))
       IN  [fs |-> rest.fs, results |-> <<one.msg>> \o rest.results]

\* cmd_rm leaving its loop at the first target that is not removed
cmd_rm_stopping(a, f, cwd, args) ==
  LET failing == {i \in 1..Len(args) :
                    rm_loop(a, f, cwd, SubSeq(args, 1, i)).results[i].kind # "removed"}
  IN  IF a = "cli" /\ args = <<>> THEN [fs |-> f, results |-> <<Usage>>]
      ELSE IF failing = {} THEN rm_loop(a, f, cwd, args)
      ELSE rm_loop(a, f, cwd,
                   SubSeq(args, 1, CHOOSE i \in failing : \A j \in failing : i <= j))

cmd_rm(a, f, cwd, args) ==
  IF a = "cli" /\ args = <<>> THEN [fs |-> f, results |-> <<Usage>>]
  ELSE rm_loop(a, f, cwd, args)

\* rmdir_one without the test of os.listdir
rmdir_one_unchecked(f, cwd, dirname) ==
  LET path == os_path_join(cwd, dirname)
      p == walk(f, <<>>, path).path
  IN  IF isdir(f, path) /\ p # <<>>
      THEN [fs |-> rmtree(f, p), msg |-> Msg("dir_removed", dirname, <<>>)]
      ELSE [fs |-> f, msg |-> Msg("dir_not_found", dirname, <<>>)]

\* the body of the loop of cmd_rmdir
rmdir_one(f, cwd, dirname) ==
  LET path == os_path_join(cwd, dirname)
      p == walk(f, <<>>, path).path
  IN  IF isdir(f, path)
      THEN IF listdir(f, p) # {}
           THEN [fs |-> f, msg |-> Msg("not_empty", dirname, <<>>)]
           ELSE IF path[Len(path)] = <<".">> \/ p = <<>>
           THEN [fs |-> f, msg |-> Msg("error", dirname, <<>>)]
           ELSE [fs |-> remove_entry(f, p), msg |-> Msg("dir_removed", dirname, <<>>)]
      ELSE [fs |-> f, msg |-> Msg("dir_not_found", dirname, <<>>)]

RECURSIVE cmd_rmdir(_, _, _)
cmd_rmdir(f, cwd, args) ==
  IF args = <<>> THEN [fs |-> f, results |-> <<>>]
  ELSE LET one == rmdir_one(f, cwd, Head(args))
           rest == cmd_rmdir(one.fs, cwd, Tail(args))
       IN  [fs |-> rest.fs, results |-> <<one.msg>> \o rest.results]

\* the last name of a path, <<>> when it has none
last_name(segs) ==
  LET named == {i \in 1..Len(segs) : segs[i] # <<>>}
  IN  IF named = {} THEN <<>> ELSE segs[CHOOSE i \in named : \A j \in named : j <= i]

\* shutil.rmtree(path) when the os.rmdir(path) that ends it fails: what is
\* below the directory is gone, the directory stays
rmtree_below(f, p) == [q \in {x \in DOMAIN f : x = p \/ ~is_prefix(p, x)} |-> f[q]]

\* the body of the loop of cmd_rmdir_force; os.rmdir fails on the root and
\* on a path that ends in "." or ".."
rmdir_force_one(f, cwd, dirname) ==
  LET path == os_path_join(cwd, dirname)
      p == walk(f, <<>>, path).path
  IN  IF isdir(f, path)
      THEN IF p = <<>> \/ last_name(path) \in {<<".">>, <<".", ".">>}
           THEN [fs |-> rmtree_below(f, p), msg |-> Msg("error", dirname, <<>>)]
           ELSE [fs |-> rmtree(f, p), msg |-> Msg("dir_removed", dirname, <<>>)]
      ELSE [fs |-> f, msg |-> Msg("dir_not_found", dirname, <<>>)]

RECURSIVE cmd_rmdir_force(_, _, _)
cmd_rmdir_force(f, cwd, args) ==
  IF args = <<>> THEN [fs |-> f, results |-> <<>>]
  ELSE LET one == rmdir_force_one(f, cwd, Head(args))
           rest == cmd_rmdir_force(one.fs, cwd, Tail(args))
       IN  [fs |-> rest.fs, results |-> <<one.msg>> \o rest.results]

\* mkdir_one with os.makedirs(path) and no exist_ok
mkdir_one_exclusive(f, cwd, dirname) ==
  LET path == os_path_join(cwd, dirname)
      made == makedirs(f, <<>>, path)
  IN  IF made.err = "" /\ ~isdir(f, path)
      THEN [fs |-> made.fs, msg |-> Msg("dir_created", dirname, <<>>)]
      ELSE [fs |-> f, msg |-> Msg("error", dirname, <<>>)]

\* the body of the loop of cmd_mkdir
mkdir_one(f, cwd, dirname) ==
  LET made == makedirs(f, <<>>, os_path_join(cwd, dirname))
  IN  IF made.err = ""
      THEN [fs |-> made.fs, msg |-> Msg("dir_created", dirname, <<>>)]
      ELSE [fs |-> made.fs, msg |-> Msg("error", dirname, <<>>)]

RECURSIVE mkdir_loop(_, _, _)
mkdir_loop(f, cwd, args) ==
  IF args = <<>> THEN [fs |-> f, results |-> <<>>]
  ELSE LET one == mkdir_one(f, cwd, Head(args))
           rest == mkdir_loop(one.fs, cwd, Tail(args))
       IN  [fs |-> rest.fs, results |-> <<one.msg>> \o rest.results]

cmd_mkdir(a, f, cwd, args) ==
  IF a = "cli" /\ args = <<>> THEN [fs |-> f, results |-> <<Usage>>]
  ELSE mkdir_loop(f, cwd, args)

\* touch_one opening the file with 'w'
touch_one_truncating(f, cwd, filename) ==
  LET opened == open_write(f, os_path_join(cwd, filename), "w", <<>>)
  IN  IF opened.err = ""
      THEN [fs |-> opened.fs, msg |-> Msg("touched", filename, <<>>)]
      ELSE [fs |-> f, msg |-> Msg("error", filename, <<>>)]

\* the body of the loop of cmd_touch
touch_one(f, cwd, filename) ==
  LET opened == open_write(f, os_path_join(cwd, filename), "a", <<>>)
  IN  IF opened.err = ""
      THEN [fs |-> opened.fs, msg |-> Msg("touched", filename, <<>>)]
      ELSE [fs |-> f, msg |-> Msg("error", filename, <<>>)]

RECURSIVE touch_loop(_, _, _)
touch_loop(f, cwd, args) ==
  IF args = <<>> THEN [fs |-> f, results |-> <<>>]
  ELSE LET one == touch_one(f, cwd, Head(args))
           rest == touch_loop(one.fs, cwd, Tail(args))
       IN  [fs |-> rest.fs, results |-> <<one.msg>> \o rest.results]

cmd_touch(a, f, cwd, args) ==
  IF a = "cli" /\ args = <<>> THEN [fs |-> f, results |-> <<Usage>>]
  ELSE touch_loop(f, cwd, args)

\* the body of the loop of cmd_cat
cat_one(f, cwd, filename) ==
  LET got == open_read(f, os_path_join(cwd, filename))
  IN  IF got.err = "" THEN Msg("content", filename, got.text)
      ELSE IF got.err = "ENOENT" THEN Msg("not_found", filename, <<>>)
      ELSE Msg("error", filename, <<>>)

cat_loop(f, cwd, args) ==
  [fs |-> f, results |-> [i \in 1..Len(args) |-> cat_one(f, cwd, args[i])]]

cmd_cat(a, f, cwd, args) ==
  IF a = "cli" /\ args = <<>> THEN [fs |-> f, results |-> <<Usage>>]
  ELSE cat_loop(f, cwd, args)

\* args.index(">"): the place of the first ">" among the arguments
redirect_index(args) ==
  CHOOSE i \in 1..Len(args) : args[i] = <<">">> /\ \A j \in 1..(i - 1) : args[j] # <<">">>

cmd_echo(f, cwd, args) ==
  IF Len(args) < 3 \/ ~list_in(<<">">>, args)
  THEN [fs |-> f, results |-> <<Msg("display", <<>>, join(<<" ">>, args))>>]
  ELSE LET k == redirect_index(args)
           content == join(<<" ">>, SubSeq(args, 1, k - 1))
           filename == IF k < Len(args) THEN args[k + 1] ELSE <<"o","u","t","p","u","t",".","t","x","t">>
           opened == open_write(f, os_path_join(cwd, filename), "w", content)
       IN  IF opened.err = ""
           THEN [fs |-> opened.fs, results |-> <<Msg("written", filename, content)>>]
           ELSE [fs |-> f, results |-> <<Msg("error", filename, <<>>)>>]

cmd_edit(f, cwd, args) ==
  IF Len(args) < 1 THEN [fs |-> f, results |-> <<Usage>>]
  ELSE LET filename == args[1]
           content == join(<<" ">>, Tail(args))
           opened == open_write(f, os_path_join(cwd, filename), "w", content)
       IN  IF opened.err = ""
           THEN [fs |-> opened.fs, results |-> <<Msg("edited", filename, content)>>]
           ELSE [fs |-> f, results |-> <<Msg("error", filename, <<>>)>>]

\* cmd_count: the files, the directories and all the items of the working directory
cmd_count(f, cwd) ==
  LET items == children(f, cwd)
  IN  [files |-> Cardinality({q \in items : f[q].kind = "file"}),
       dirs  |-> Cardinality({q \in items : f[q].kind = "dir"}),
       total |-> Cardinality(items)]


\* ------------------------------------------------------------- listing

\* the printable characters in the order of their code points (the
\* backquote left out)
Ascii ==
  <<" ", "!", "\"", "#", "$", "%", "&", "'", "(", ")", "*", "+", ",", "-", ".", "/",
     "0", "1", "2", "3", "4", "5", "6", "7", "8", "9", ":", ";", "<", "=", ">", "?",
     "@", "A", "B", "C", "D", "E", "F", "G", "H", "I", "J", "K", "L", "M", "N", "O",
     "P", "Q", "R", "S", "T", "U", "V", "W", "X", "Y", "Z", "[", "\\", "]", "^", "_",
     "a", "b", "c", "d", "e", "f", "g", "h", "i", "j", "k", "l", "m", "n", "o",
     "p", "q", "r", "s", "t", "u", "v", "w", "x", "y", "z", "{", "|", "}", "~">>

\* the place of c in that order: ord(c1) < ord(c2) as in Python for the
\* characters above
ord(c) == CHOOSE i \in DOMAIN Ascii : Ascii[i] = c

\* a < b, for two strs
RECURSIVE str_less(_, _)
str_less(a, b) ==
  IF b = <<>> THEN FALSE
  ELSE IF a = <<>> THEN TRUE
  ELSE IF a[1] = b[1] THEN str_less(Tail(a), Tail(b))
  ELSE ord(a[1]) < ord(b[1])

\* sorted(items), for a set of strs
RECURSIVE sorted(_)
sorted(S) ==
  IF S = {} THEN <<>>
  ELSE LET m == CHOOSE x \in S : \A y \in S \ {x} : str_less(x, y)
       IN  <<m>> \o sorted(S \ {m})

\* what a listing shows: an error, the line for an empty directory, or one
\* entry per item with its name and "dir" or "file"
Listing(error, empty, entries) ==
  [error |-> error, empty |-> empty, entries |-> entries]

NoListing == Listing(FALSE, FALSE, <<>>)

\* os.path.isdir(path) for a child of an existing directory
entry_type(f, p) == IF f[p].kind = "dir" THEN "dir" ELSE "file"

\* cmd_ls: the items of the working directory, sorted, directories marked
cmd_ls(f, cwd) ==
  IF ~(cwd \in DOMAIN f /\ f[cwd].kind = "dir") THEN Listing(TRUE, FALSE, <<>>)
  ELSE LET items == sorted(listdir(f, cwd))
       IN  IF items = <<>> THEN Listing(FALSE, TRUE, <<>>)
           ELSE Listing(FALSE, FALSE,
                        [i \in 1..Len(items) |->
                           [name |-> items[i],
                            type |-> entry_type(f, cwd \o <<items[i]>>)]])
\* -------------------------------------------------------------- resolver

\* the value None; no str equals it (a str holds one-character strings)
None == <<"None">>

\* what str.strip() and str.split() take for whitespace
Whitespace == {" "}

\* command.split(): the words between the runs of whitespace
str_split(s) == SelectSeq(split(s, " "), LAMBDA w : w # <<>>)

\* any(phrase in cmd_lower for phrase in phrases)
any_in(phrases, s) == \E p \in phrases : str_in(p, s)

min_of(S) == CHOOSE i \in S : \A j \in S : i <= j

natural_indicators ==
  { <<"h","o","w">>, <<"w","h","a","t">>, <<"w","h","e","r","e">>, <<"w","h","e","n">>, <<"w","h","y">>, <<"w","h","o">>, <<"w","h","i","c","h">>,
    <<"c","a","n"," ","y","o","u">>, <<"c","o","u","l","d"," ","y","o","u">>, <<"p","l","e","a","s","e">>, <<"i"," ","w","a","n","t">>, <<"i"," ","n","e","e","d">>, <<"i"," ","w","o","u","l","d">>, <<"i","'","d">>,
    <<"s","h","o","w"," ","m","e">>, <<"t","e","l","l"," ","m","e">>, <<"g","i","v","e"," ","m","e">>, <<"h","e","l","p"," ","m","e">>, <<"f","i","n","d"," ","m","e">>,
    <<"c","r","e","a","t","e">>, <<"m","a","k","e">>, <<"b","u","i","l","d">>, <<"g","e","n","e","r","a","t","e">>, <<"a","d","d">>, <<"r","e","m","o","v","e">>, <<"d","e","l","e","t","e">>,
    <<"c","o","u","n","t">>, <<"l","i","s","t">>, <<"d","i","s","p","l","a","y">>, <<"p","r","i","n","t">>, <<"o","p","e","n">>, <<"c","l","o","s","e">>,
    <<"f","i","l","e","s">>, <<"f","o","l","d","e","r","s">>, <<"d","i","r","e","c","t","o","r","i","e","s">>, <<"p","r","o","j","e","c","t">>, <<"i","t","e","m","s">> }

common_words ==
  { <<"t","h","e">>, <<"a">>, <<"a","n">>, <<"i","s">>, <<"a","r","e">>, <<"i","n">>, <<"o","n">>, <<"a","t">>, <<"t","o">>, <<"f","o","r">>, <<"o","f">>, <<"w","i","t","h">> }

looks_like_natural_language(command) ==
  LET cmd_lower == strip(lower(command), Whitespace)
      words == str_split(cmd_lower)
  IN  \/ any_in(natural_indicators, cmd_lower)
      \/ Len(words) > 2 /\ \E i \in DOMAIN words : words[i] \in common_words

\* the phrases of the counting rule, were "how many" not among them
count_phrases_short == { <<"c","o","u","n","t">>, <<"n","u","m","b","e","r"," ","o","f"," ","f","i","l","e","s">>, <<"f","i","l","e","s"," ","c","o","u","n","t">> }

\* the phrases of the counting rule
count_phrases == { <<"c","o","u","n","t">>, <<"h","o","w"," ","m","a","n","y">>, <<"n","u","m","b","e","r"," ","o","f"," ","f","i","l","e","s">>, <<"f","i","l","e","s"," ","c","o","u","n","t">> }

delete_phrases == { <<"d","e","l","e","t","e">>, <<"r","e","m","o","v","e">>, <<"d","e","l">> }

named_called == { <<"n","a","m","e","d">>, <<"c","a","l","l","e","d">> }

folder_directory == { <<"f","o","l","d","e","r">>, <<"d","i","r","e","c","t","o","r","y">> }

\* "." in word and not word.startswith(".")
filename_like(word) == str_in(<<".">>, word) /\ word[1] # "."

\* the two-word direct form (streamlit_app.py only)
direct_form(original_words) ==
  LET action == lower(original_words[1])
      target == original_words[2]
  IN  IF action \in delete_phrases THEN <<"r","m"," ">> \o target
      ELSE IF action \in { <<"c","r","e","a","t","e">>, <<"m","a","k","e">> } THEN <<"t","o","u","c","h"," ">> \o target
      ELSE IF action = <<"m","k","d","i","r">> THEN <<"m","k","d","i","r"," ">> \o target
      ELSE IF action = <<"r","m","d","i","r">> THEN <<"r","m","d","i","r"," ">> \o target
      ELSE None

\* deletion of a folder: the word after named/called, or after
\* folder/directory when it is not itself named/called
delete_folder(words, original_words) ==
  LET n == Len(original_words)
      hits == {i \in 1..(n - 1) :
                 \/ words[i] \in named_called
                 \/ /\ words[i] \in folder_directory
                    /\ strip(original_words[i + 1], Quotes) \notin named_called}
  IN  IF hits = {} THEN <<"r","m","d","i","r"," ","t","e","m","p">>
      ELSE <<"r","m","d","i","r"," ">> \o strip(original_words[min_of(hits) + 1], Quotes)

\* deletion of a file
delete_file(words, original_words) ==
  LET n == Len(original_words)
      dotted == {i \in 1..n :
                   /\ filename_like(original_words[i])
                   /\ lower(original_words[i]) \notin
                        { <<"d","e","l","e","t","e">>, <<"r","e","m","o","v","e">>, <<"d","e","l">>, <<"f","i","l","e">>, <<"t","h","e">> }}
      keyed == {i \in 1..(n - 1) :
                  \/ words[i] \in named_called
                  \/ /\ words[i] = <<"f","i","l","e">>
                     /\ strip(original_words[i + 1], Quotes) \notin named_called}
      after == {i \in 1..(n - 1) :
                  /\ words[i] \in delete_phrases
                  /\ strip(original_words[i + 1], Quotes) \notin
                       { <<"t","h","e">>, <<"a">>, <<"a","n">>, <<"f","i","l","e">>, <<"n","a","m","e","d">>, <<"c","a","l","l","e","d">> }}
  IN  IF dotted # {} THEN <<"r","m"," ">> \o strip(original_words[min_of(dotted)], Quotes)
      ELSE IF keyed # {} THEN <<"r","m"," ">> \o strip(original_words[min_of(keyed) + 1], Quotes)
      ELSE IF after # {} THEN <<"r","m"," ">> \o strip(original_words[min_of(after) + 1], Quotes)
      ELSE <<"r","m"," ","t","e","m","p",".","t","x","t">>

\* the extension added to a name without "." (streamlit_app.py)
extension(cmd_lower) ==
  IF str_in(<<"p","y","t","h","o","n">>, cmd_lower) THEN <<".","p","y">>
  ELSE IF str_in(<<"t","x","t">>, cmd_lower) \/ str_in(<<"t","e","x","t">>, cmd_lower) THEN <<".","t","x","t">>
  ELSE IF str_in(<<"h","t","m","l">>, cmd_lower) THEN <<".","h","t","m","l">>
  ELSE IF str_in(<<"c","s","s">>, cmd_lower) THEN <<".","c","s","s">>
  ELSE IF str_in(<<"j","s">>, cmd_lower) \/ str_in(<<"j","a","v","a","s","c","r","i","p","t">>, cmd_lower) THEN <<".","j","s">>
  ELSE <<".","t","x","t">>

\* creation of a file, were the name taken after the last keyword
create_file_last(cmd_lower, words, original_words) ==
  LET n == Len(original_words)
      keyed == {i \in 1..(n - 1) :
                  \/ words[i] \in named_called
                  \/ /\ words[i] = <<"f","i","l","e">>
                     /\ lower(original_words[i + 1]) \notin named_called}
      last_key == CHOOSE i \in keyed : \A j \in keyed : j <= i
      filename == IF keyed = {} THEN <<>>
                  ELSE strip(original_words[last_key + 1], Quotes)
  IN  IF filename = <<>> THEN <<"t","o","u","c","h"," ","n","e","w","f","i","l","e",".","t","x","t">>
      ELSE IF str_in(<<".">>, filename) THEN <<"t","o","u","c","h"," ">> \o filename
      ELSE <<"t","o","u","c","h"," ">> \o filename \o extension(cmd_lower)

\* creation of a file
create_file(cmd_lower, words, original_words) ==
  LET n == Len(original_words)
      keyed == {i \in 1..(n - 1) :
                  \/ words[i] \in named_called
                  \/ /\ words[i] = <<"f","i","l","e">>
                     /\ lower(original_words[i + 1]) \notin named_called}
      first == IF keyed = {} THEN <<>>
               ELSE strip(original_words[min_of(keyed) + 1], Quotes)
      dotted == {i \in 1..n : filename_like(original_words[i])}
      filename == IF first # <<>> THEN first
                  ELSE IF dotted = {} THEN <<>>
                  ELSE strip(original_words[min_of(dotted)], Quotes)
  IN  IF filename = <<>> THEN <<"t","o","u","c","h"," ","n","e","w","f","i","l","e",".","t","x","t">>
      ELSE IF str_in(<<".">>, filename) THEN <<"t","o","u","c","h"," ">> \o filename
      ELSE <<"t","o","u","c","h"," ">> \o filename \o extension(cmd_lower)

\* creation of a folder
create_folder(words, original_words) ==
  LET n == Len(original_words)
      hits == {i \in 1..(n - 1) :
                 \/ words[i] \in named_called
                 \/ /\ words[i] \in folder_directory
                    /\ lower(strip(original_words[i + 1], Quotes)) \notin named_called}
      dirname == IF hits = {} THEN <<>>
                 ELSE strip(original_words[min_of(hits) + 1], Quotes)
  IN  IF dirname = <<>> THEN <<"m","k","d","i","r"," ","n","e","w","f","o","l","d","e","r">> ELSE <<"m","k","d","i","r"," ">> \o dirname

to_in == { <<"t","o">>, <<"i","n">> }

\* the file a write request names, or <<>>
write_filename(original_words) ==
  LET n == Len(original_words)
      keyed == {i \in 1..(n - 1) : lower(original_words[i]) \in to_in}
      first == IF keyed = {} THEN <<>>
               ELSE strip(original_words[min_of(keyed) + 1], Quotes)
      dotted == {i \in 1..n : filename_like(original_words[i])}
  IN  IF first # <<>> THEN first
      ELSE IF dotted = {} THEN <<>>
      ELSE strip(original_words[min_of(dotted)], Quotes)

\* the words collected after "write", were they collected up to the last
\* "to"/"in"
write_content_last(original_words) ==
  LET n == Len(original_words)
      stops == {i \in 1..n : lower(original_words[i]) \in to_in}
      stop == IF stops = {} THEN n + 1 ELSE CHOOSE i \in stops : \A j \in stops : j <= i
      starts == {i \in 1..(stop - 1) : lower(original_words[i]) = <<"w","r","i","t","e">>}
      parts == IF starts = {} THEN <<>>
               ELSE SelectSeq(SubSeq(original_words, min_of(starts) + 1, stop - 1),
                              LAMBDA w : lower(w) # <<"w","r","i","t","e">>)
  IN  strip(join(<<" ">>, parts), Quotes)

\* the words collected after "write", up to the first "to"/"in"
write_content(original_words) ==
  LET n == Len(original_words)
      stops == {i \in 1..n : lower(original_words[i]) \in to_in}
      stop == IF stops = {} THEN n + 1 ELSE min_of(stops)
      starts == {i \in 1..(stop - 1) : lower(original_words[i]) = <<"w","r","i","t","e">>}
      parts == IF starts = {} THEN <<>>
               ELSE SelectSeq(SubSeq(original_words, min_of(starts) + 1, stop - 1),
                              LAMBDA w : lower(w) # <<"w","r","i","t","e">>)
  IN  strip(join(<<" ">>, parts), Quotes)

write_file(original_words) ==
  LET filename == write_filename(original_words)
      content == write_content(original_words)
  IN  IF content # <<>> THEN <<"e","c","h","o"," ">> \o content \o <<" ",">"," ">> \o filename
      ELSE <<"t","o","u","c","h"," ">> \o filename

list_phrases == { <<"s","h","o","w">>, <<"l","i","s","t">>, <<"w","h","a","t"," ","f","i","l","e","s">>, <<"s","e","e"," ","f","i","l","e","s">>, <<"d","i","s","p","l","a","y"," ","f","i","l","e","s">> }

here_phrases == { <<"w","h","a","t","'","s"," ","h","e","r","e">>, <<"w","h","a","t"," ","i","s"," ","h","e","r","e">>, <<"c","o","n","t","e","n","t","s">> }

\* parse_with_fallback_patterns of streamlit_app.py
parse_with_fallback_patterns(command) ==
  LET cmd_lower == strip(lower(command), Whitespace)
      original_words == str_split(command)
      words == str_split(cmd_lower)
      creating == str_in(<<"c","r","e","a","t","e">>, cmd_lower) \/ str_in(<<"m","a","k","e">>, cmd_lower)
  IN  IF Len(original_words) = 2 /\ direct_form(original_words) # None
        THEN direct_form(original_words)
      ELSE IF any_in(count_phrases, cmd_lower) THEN <<"c","o","u","n","t">>
      ELSE IF any_in(delete_phrases, cmd_lower)
        THEN IF any_in(folder_directory, cmd_lower)
             THEN delete_folder(words, original_words)
             ELSE delete_file(words, original_words)
      ELSE IF creating /\ str_in(<<"f","i","l","e">>, cmd_lower)
        THEN create_file(cmd_lower, words, original_words)
      ELSE IF creating /\ any_in(folder_directory, cmd_lower)
        THEN create_folder(words, original_words)
      ELSE IF /\ str_in(<<"w","r","i","t","e">>, cmd_lower)
              /\ any_in(to_in, cmd_lower)
              /\ write_filename(original_words) # <<>>
        THEN write_file(original_words)
      ELSE IF any_in(list_phrases, cmd_lower) THEN <<"l","s">>
      ELSE IF any_in(here_phrases, cmd_lower) THEN <<"l","s">>
      ELSE None

\* parse_with_fallback_patterns of main.py: no two-word form, no deletion,
\* no write rule; the file name is taken from the lowercased words
cli_parse_with_fallback_patterns(command) ==
  LET cmd_lower == strip(lower(command), Whitespace)
      words == str_split(cmd_lower)
      n == Len(words)
      keyed == {i \in 1..(n - 1) :
                  \/ words[i] \in named_called
                  \/ words[i] = <<"f","i","l","e">> /\ words[i + 1] \notin named_called}
      filename == IF keyed = {} THEN <<>>
                  ELSE strip(words[min_of(keyed) + 1], Quotes)
      ext == IF str_in(<<".">>, filename) THEN <<>>
             ELSE IF str_in(<<"j","a","v","a">>, cmd_lower) THEN <<".","j","a","v","a">>
             ELSE IF str_in(<<"p","y">>, cmd_lower) \/ str_in(<<"p","y","t","h","o","n">>, cmd_lower) THEN <<".","p","y">>
             ELSE IF str_in(<<"t","x","t">>, cmd_lower) \/ str_in(<<"t","e","x","t">>, cmd_lower) THEN <<".","t","x","t">>
             ELSE <<>>
  IN  IF any_in(count_phrases, cmd_lower) THEN <<"c","o","u","n","t">>
      ELSE IF /\ str_in(<<"c","r","e","a","t","e">>, cmd_lower) \/ str_in(<<"m","a","k","e">>, cmd_lower)
              /\ str_in(<<"f","i","l","e">>, cmd_lower)
        THEN IF filename # <<>> THEN <<"t","o","u","c","h"," ">> \o filename \o ext
             ELSE <<"t","o","u","c","h"," ","n","e","w","f","i","l","e",".","t","x","t">>
      ELSE IF /\ str_in(<<"c","r","e","a","t","e">>, cmd_lower) \/ str_in(<<"m","a","k","e">>, cmd_lower)
              /\ any_in(folder_directory, cmd_lower)
        THEN <<"m","k","d","i","r"," ","n","e","w","f","o","l","d","e","r">>
      ELSE IF any_in({ <<"s","h","o","w">>, <<"l","i","s","t">>, <<"w","h","a","t"," ","f","i","l","e","s">>, <<"s","e","e"," ","f","i","l","e","s">> }, cmd_lower)
        THEN <<"l","s">>
      ELSE None

\* ------------------------------------------------------ external service
\* One answer of the text-generation service to a request: a 200 answer
\* carrying a text, a 200 answer with no candidate, another status, or no
\* answer at all (connection error, timeout).

Response(kind, text) == [kind |-> kind, text |-> text]

\* call_gemini_api, were the flag left as it is after a status other than
\* 200
call_gemini_api_keeping(resp, enabled) ==
  IF resp.kind = "ok"
    THEN [text |-> strip(resp.text, Whitespace), ai_enabled |-> enabled]
  ELSE [text |-> None, ai_enabled |-> enabled]

\* call_gemini_api: the text returned (None when there is none) and the
\* flag it leaves; only a status other than 200 clears the flag
call_gemini_api(resp, enabled) ==
  IF resp.kind = "ok"
    THEN [text |-> strip(resp.text, Whitespace), ai_enabled |-> enabled]
  ELSE IF resp.kind = "http_error" THEN [text |-> None, ai_enabled |-> FALSE]
  ELSE [text |-> None, ai_enabled |-> enabled]

\* parse_with_gemini: result.strip() when there is a non-empty result
parse_with_gemini(resp, enabled) ==
  LET called == call_gemini_api(resp, enabled)
  IN  [cmd |-> IF called.text # None /\ strip(called.text, Whitespace) # <<>>
               THEN strip(called.text, Whitespace) ELSE None,
       ai_enabled |-> called.ai_enabled]

fallback(a, command) ==
  IF a = "cli" THEN cli_parse_with_fallback_patterns(command)
  ELSE parse_with_fallback_patterns(command)

\* parse_natural_language: the service when the flag is set, the patterns
\* otherwise
parse_natural_language(a, command, resp, enabled) ==
  IF enabled
  THEN LET got == parse_with_gemini(resp, enabled)
       IN  [cmd |-> got.cmd, ai_enabled |-> got.ai_enabled, ai_called |-> TRUE]
  ELSE [cmd |-> fallback(a, command), ai_enabled |-> enabled, ai_called |-> FALSE]

\* ------------------------------------------------------------ dispatcher

\* command_map of PythonTerminal.execute_command: the handler of each
\* known command
command_map ==
  (<<"e","x","i","t">> :> "cmd_exit") @@ (<<"q","u","i","t">> :> "cmd_exit") @@
  (<<"p","w","d">> :> "cmd_pwd") @@ (<<"l","s">> :> "cmd_ls") @@ (<<"d","i","r">> :> "cmd_ls") @@
  (<<"c","d">> :> "cmd_cd") @@ (<<"m","k","d","i","r">> :> "cmd_mkdir") @@
  (<<"t","o","u","c","h">> :> "cmd_touch") @@ (<<"c","a","t">> :> "cmd_cat") @@
  (<<"t","y","p","e">> :> "cmd_cat") @@ (<<"r","m">> :> "cmd_rm") @@ (<<"d","e","l">> :> "cmd_rm") @@
  (<<"c","l","e","a","r">> :> "cmd_clear") @@ (<<"c","l","s">> :> "cmd_clear") @@
  (<<"h","e","l","p">> :> "cmd_help") @@ (<<"c","o","u","n","t">> :> "cmd_count") @@
  (<<"a","i">> :> "cmd_ai") @@ (<<"h","i","s","t","o","r","y">> :> "cmd_history") @@
  (<<"v","e","r","s","i","o","n">> :> "cmd_version") @@ (<<"d","e","b","u","g","-","a","p","i">> :> "cmd_debug_api")

\* the chain of tests of execute_command in streamlit_app.py: the handler
\* of a line, "" when none of the tests holds
web_builtin(command, args) ==
  IF command = <<"h","e","l","p">> THEN "cmd_help"
  ELSE IF command = <<"p","w","d">> THEN "cmd_pwd"
  ELSE IF command \in { <<"l","s">>, <<"d","i","r">> } THEN "cmd_ls"
  ELSE IF command = <<"c","o","u","n","t">> THEN "cmd_count"
  ELSE IF command = <<"m","k","d","i","r">> /\ args # <<>> THEN "cmd_mkdir"
  ELSE IF command = <<"t","o","u","c","h">> /\ args # <<>> THEN "cmd_touch"
  ELSE IF command = <<"c","a","t">> /\ args # <<>> THEN "cmd_cat"
  ELSE IF command \in { <<"r","m">>, <<"d","e","l">> } /\ args # <<>> THEN "cmd_rm"
  ELSE IF command = <<"r","m","d","i","r">> /\ args # <<>>
    THEN IF list_in(<<"-","r">>, args) THEN "cmd_rmdir_force" ELSE "cmd_rmdir"
  ELSE IF command = <<"e","c","h","o">> THEN "cmd_echo"
  ELSE IF command = <<"e","d","i","t">> /\ args # <<>> THEN "cmd_edit"
  ELSE IF command = <<"c","l","e","a","r">> THEN "clear"
  ELSE IF command = <<"h","i","s","t","o","r","y">> THEN "cmd_history"
  ELSE IF command = <<"a","i">> THEN "cmd_ai"
  ELSE ""

\* the first words the chain above tests for
web_commands ==
  { <<"h","e","l","p">>, <<"p","w","d">>, <<"l","s">>, <<"d","i","r">>, <<"c","o","u","n","t">>, <<"m","k","d","i","r">>, <<"t","o","u","c","h">>, <<"c","a","t">>,
    <<"r","m">>, <<"d","e","l">>, <<"r","m","d","i","r">>, <<"e","c","h","o">>, <<"e","d","i","t">>, <<"c","l","e","a","r">>, <<"h","i","s","t","o","r","y">>, <<"a","i">> }

builtin(a, command, args) ==
  IF a = "cli"
  THEN IF command \in DOMAIN command_map THEN command_map[command] ELSE ""
  ELSE web_builtin(command, args)

\* safe_commands of the web execute_system_command
safe_commands == { <<"e","c","h","o">>, <<"d","a","t","e">>, <<"w","h","o","a","m","i">> }

\* whether execute_system_command hands the line to subprocess.run(shell=True)
execute_system_command(a, command_line) ==
  a = "cli" \/ str_split(command_line)[1] \in safe_commands

\* os.path.abspath: "." and empty segments dropped, ".." taken textually
RECURSIVE normpath(_, _)
normpath(acc, segs) ==
  IF segs = <<>> THEN acc
  ELSE IF Head(segs) \in {<<>>, <<".">>} THEN normpath(acc, Tail(segs))
  ELSE IF Head(segs) = <<".", ".">> THEN normpath(parent(acc), Tail(segs))
  ELSE normpath(acc \o <<Head(segs)>>, Tail(segs))

\* os.path.expanduser("~")
HomeDir == << <<"h","o","m","e">> >>

\* cmd_cd: the working directory it leaves
cmd_cd(f, cwd, args) ==
  LET target == IF args = <<>> THEN HomeDir
                ELSE normpath(<<>>, os_path_join(cwd, args[1]))
  IN  IF target \in DOMAIN f /\ f[target].kind = "dir" THEN target ELSE cwd

\* cmd_cd: the line it prints, "Changed to" or "Directory not found"
cmd_cd_message(f, cwd, args) ==
  LET target == IF args = <<>> THEN HomeDir
                ELSE normpath(<<>>, os_path_join(cwd, args[1]))
      name == IF args = <<>> THEN <<>> ELSE args[1]
  IN  IF target \in DOMAIN f /\ f[target].kind = "dir"
      THEN Msg("changed", name, <<>>)
      ELSE Msg("dir_not_found", name, <<>>)

\* A session's state as the handlers see it
Session(f, c, enabled, run, req) ==
  [fs |-> f, cwd |-> c, ai_enabled |-> enabled, running |-> run,
   has_requests |-> req]

\* What one activation of execute_command did, and the state it leaves:
\*   route    "builtin", "resolved" (a natural-language line turned into
\*            the command `next`, which execute_command is then called
\*            on), "not_understood" or "system"
\*   shell    subprocess.run(..., shell=True) was called with the line
Outcome(st, line) ==
  [fs |-> st.fs, cwd |-> st.cwd, ai_enabled |-> st.ai_enabled,
   running |-> st.running, next |-> None,
   line |-> line, route |-> "", handler |-> "", args |-> <<>>,
   results |-> <<>>, count |-> [files |-> 0, dirs |-> 0, total |-> 0],
   listing |-> NoListing,
   natural_cmd |-> None, ai_called |-> FALSE, shell |-> FALSE]

\* the handlers that work on files, called on the arguments of the line
file_handler(a, h, f, cwd, args) ==
  IF h = "cmd_rm" THEN cmd_rm(a, f, cwd, args)
  ELSE IF h = "cmd_rmdir" THEN cmd_rmdir(f, cwd, args)
  ELSE IF h = "cmd_rmdir_force" THEN cmd_rmdir_force(f, cwd, args)
  ELSE IF h = "cmd_mkdir" THEN cmd_mkdir(a, f, cwd, args)
  ELSE IF h = "cmd_touch" THEN cmd_touch(a, f, cwd, args)
  ELSE IF h = "cmd_cat" THEN cmd_cat(a, f, cwd, args)
  ELSE IF h = "cmd_echo" THEN cmd_echo(f, cwd, args)
  ELSE IF h = "cmd_edit" THEN cmd_edit(f, cwd, args)
  ELSE [fs |-> f, results |-> <<>>]

\* the call of a built-in handler
run_builtin(a, h, st, line, args, resp) ==
  LET o == [Outcome(st, line) EXCEPT !.route = "builtin", !.handler = h, !.args = args]
      files == file_handler(a, h, st.fs, st.cwd, args)
  IN  [o EXCEPT
         !.fs = files.fs,
         !.results = IF h = "cmd_cd" THEN <<cmd_cd_message(st.fs, st.cwd, args)>>
                      ELSE files.results,
         !.count = IF h = "cmd_count" THEN cmd_count(st.fs, st.cwd) ELSE @,
         !.listing = IF h = "cmd_ls" THEN cmd_ls(st.fs, st.cwd) ELSE @,
         !.cwd = IF h = "cmd_cd" THEN cmd_cd(st.fs, st.cwd, args) ELSE @,
         !.running = IF h = "cmd_exit" THEN FALSE ELSE @,
         !.ai_called = h = "cmd_debug_api" /\ st.has_requests,
         !.ai_enabled = IF h = "cmd_debug_api" /\ st.has_requests
                        THEN call_gemini_api(resp, st.ai_enabled).ai_enabled
                        ELSE @]

\* execute_command: one activation on a non-blank line
execute_command(a, st, line, resp) ==
  LET words == str_split(line)
      command == words[1]
      args == Tail(words)
      h == builtin(a, command, args)
      o == Outcome(st, line)
  IN  IF h = "cmd_rmdir_force"
        THEN run_builtin(a, h, st, line, SelectSeq(args, LAMBDA x : x # <<"-","r">>), resp)
      ELSE IF h # "" THEN run_builtin(a, h, st, line, args, resp)
      ELSE IF looks_like_natural_language(line)
      THEN LET p == parse_natural_language(a, line, resp, st.ai_enabled)
           IN  IF p.cmd # None
               THEN [o EXCEPT !.route = "resolved", !.next = p.cmd,
                              !.natural_cmd = p.cmd,
                              !.ai_enabled = p.ai_enabled,
                              !.ai_called = p.ai_called]
               ELSE [o EXCEPT !.route = "not_understood",
                              !.ai_enabled = p.ai_enabled,
                              !.ai_called = p.ai_called]
      ELSE [o EXCEPT !.route = "system",
                     !.shell = execute_system_command(a, line)]


\* ------------------------------------------------------- the first page
\* The page of streamlit_app.py lines 1-357.  Its commands are simulated:
\* run_command reads and writes no file; only list_tree reads the
\* directory of the session.

\* nl_to_command: the command a request stands for
nl_to_command(nl) ==
  LET nl_lower == lower(nl)
  IN  IF str_in(<<"c","r","e","a","t","e">>, nl_lower) /\ str_in(<<"f","i","l","e">>, nl_lower)
        THEN <<"t","o","u","c","h"," ","n","e","w","f","i","l","e",".","t","x","t">>
      ELSE IF /\ str_in(<<"c","r","e","a","t","e">>, nl_lower)
              /\ str_in(<<"f","o","l","d","e","r">>, nl_lower) \/ str_in(<<"d","i","r","e","c","t","o","r","y">>, nl_lower)
        THEN <<"m","k","d","i","r"," ","n","e","w","f","o","l","d","e","r">>
      ELSE IF str_in(<<"l","i","s","t">>, nl_lower) \/ str_in(<<"s","h","o","w">>, nl_lower) THEN <<"l","s">>
      ELSE IF str_in(<<"h","e","l","p">>, nl_lower) THEN <<"h","e","l","p">>
      ELSE nl

\* the forbidden character sequences of run_command (the backquote and the
\* dollar sequence left out: no input of the model holds one)
forbidden == { <<"|">>, <<"&","&">>, <<">">>, <<"<">> }

\* what run_command returns: the kind of its output, the name the output
\* shows, and is_error
PageResult(kind, target, is_error) ==
  [output |-> Msg(kind, target, <<>>), is_error |-> is_error]

\* the fixed answer of run_command to ls
page_ls ==
  Listing(FALSE, FALSE,
          << [name |-> <<"t","e","s","t","_","f","o","l","d","e","r">>, type |-> "dir"],
             [name |-> <<"e","x","a","m","p","l","e",".","t","x","t">>, type |-> "file"],
             [name |-> <<"s","c","r","i","p","t",".","p","y">>, type |-> "file"] >>)

\* the fixed answer of run_command to count
page_count == [files |-> 2, dirs |-> 1, total |-> 3]

\* cmd[5:].strip()
after_verb(cmd) == strip(SubSeq(cmd, 6, Len(cmd)), Whitespace)

\* cmd_lower.startswith(prefix)
startswith(s, prefix) == Len(s) >= Len(prefix) /\ SubSeq(s, 1, Len(prefix)) = prefix

run_command(cmd) ==
  LET cmd_lower == strip(lower(cmd), Whitespace)
  IN  IF strip(cmd, Whitespace) = <<>> THEN PageResult("empty_command", <<>>, TRUE)
      ELSE IF any_in(forbidden, cmd) THEN PageResult("forbidden", <<>>, TRUE)
      ELSE IF cmd_lower = <<"h","e","l","p">> THEN PageResult("help", <<>>, FALSE)
      ELSE IF cmd_lower = <<"l","s">> THEN PageResult("ls", <<>>, FALSE)
      ELSE IF cmd_lower = <<"p","w","d">> THEN PageResult("pwd", <<>>, FALSE)
      ELSE IF cmd_lower = <<"c","o","u","n","t">> THEN PageResult("count", <<>>, FALSE)
      ELSE IF startswith(cmd_lower, <<"m","k","d","i","r">>)
        THEN IF after_verb(cmd) # <<>>
             THEN PageResult("dir_created", after_verb(cmd), FALSE)
             ELSE PageResult("dir_required", <<>>, TRUE)
      ELSE IF startswith(cmd_lower, <<"t","o","u","c","h">>)
        THEN IF after_verb(cmd) # <<>>
             THEN PageResult("file_created", after_verb(cmd), FALSE)
             ELSE PageResult("file_required", <<>>, TRUE)
      ELSE PageResult("executed", cmd, FALSE)

\* list_tree: the items of the directory, the directories first, each
\* group sorted by name; nothing when the directory cannot be read
list_tree(f, path) ==
  IF ~(path \in DOMAIN f /\ f[path].kind = "dir") THEN <<>>
  ELSE LET names == listdir(f, path)
           dirs == sorted({n \in names : f[path \o <<n>>].kind = "dir"})
           files == sorted({n \in names : f[path \o <<n>>].kind # "dir"})
           item(n) == [name |-> n,
                       type |-> entry_type(f, path \o <<n>>),
                       size |-> IF f[path \o <<n>>].kind = "file"
                                THEN Len(f[path \o <<n>>].content) ELSE 0]
       IN  [i \in 1..(Len(dirs) + Len(files)) |->
              IF i <= Len(dirs) THEN item(dirs[i]) ELSE item(files[i - Len(dirs)])]

\* the buttons of the sidebar
quick_cmds == { <<"h","e","l","p">>, <<"l","s">>, <<"p","w","d">>, <<"c","o","u","n","t">> }
\* ---------------------------------------------------------------- bounds

\* the commands a user enters in one session
MaxCommands == 2

\* the nested calls of execute_command the model follows
MaxDepth == 2

\* ----------------------------------------------------------------- state

VARIABLES
  app,              \* the front end of the session: "cli" or "web"
  fs,               \* the filesystem
  cwd,              \* current_directory
  ai_enabled,       \* self.ai_enabled
  has_requests,     \* HAS_REQUESTS: the requests library could be imported
  running,          \* self.running
  command_history,  \* the lines logged, oldest first
  pending,          \* the resolved command execute_command is being called on, or None
  depth,            \* how deep that call is nested
  typed,            \* a line typed at the prompt and not entered yet, or None
  last              \* what the latest activation of execute_command did

vars == <<app, fs, cwd, ai_enabled, has_requests, running, command_history,
          pending, depth, typed, last>>

\* the directory the session starts in, and the root of the sandbox
SandboxRoot == << <<"w","s">> >>

\* A filesystem at the start of a session: below the working directory a
\* file, a directory with a file in it and an empty directory; outside it
\* /etc/passwd and the user's home.
InitFS ==
  (<<>> :> DirNode) @@
  (<< <<"e","t","c">> >> :> DirNode) @@
  (<< <<"e","t","c">>, <<"p","a","s","s","w","d">> >> :> FileNode(<<"r","o","o","t">>)) @@
  (HomeDir :> DirNode) @@
  (SandboxRoot :> DirNode) @@
  (<< <<"w","s">>, <<"f",".","t","x","t">> >> :> FileNode(<<"a","b","c">>)) @@
  (<< <<"w","s">>, <<"d">> >> :> DirNode) @@
  (<< <<"w","s">>, <<"d">>, <<"g",".","t","x","t">> >> :> FileNode(<<"x">>)) @@
  (<< <<"w","s">>, <<"e">> >> :> DirNode)

\* "echo c > f", the line that asks to write the content c to the file f
echo_line(c, f) == <<"e","c","h","o"," ">> \o c \o <<" ",">"," ">> \o f

\* the writes a user may ask for: the content and the file
WriteRequests ==
  { [c |-> <<"h","e","l","l","o"," ","w","o","r","l","d">>, f |-> <<"f",".","t","x","t">>],
    [c |-> <<"h","i">>, f |-> <<"n","e","w",".","t","x","t">>],
    [c |-> <<"a"," ",">"," ","b">>, f |-> <<"f",".","t","x","t">>],
    [c |-> <<"a"," "," ","b">>, f |-> <<"f",".","t","x","t">>],
    [c |-> <<>>, f |-> <<"f",".","t","x","t">>],
    [c |-> <<"h","i">>, f |-> <<"d">>] }

\* the lines a user may enter
Lines ==
  { <<"r","m"," ","f",".","t","x","t">>, <<"r","m"," ","d">>, <<"r","m"," ","n","o","t","h","i","n","g",".","t","x","t"," ","f",".","t","x","t">>, <<"r","m"," ","d"," ","f",".","t","x","t"," ","e">>,
    <<"r","m"," ",".",".","/","e","t","c","/","p","a","s","s","w","d">>,
    <<"r","m","d","i","r"," ","d">>, <<"r","m","d","i","r"," ","e">>, <<"r","m","d","i","r"," ","d"," ","e">>, <<"r","m","d","i","r"," ","n","o","t","h","i","n","g"," ","d"," ","e">>, <<"r","m","d","i","r"," ","-","r"," ","d">>,
    <<"m","k","d","i","r"," ","x">>, <<"m","k","d","i","r"," ","d">>, <<"m","k","d","i","r"," ","f",".","t","x","t"," ","x">>, <<"m","k","d","i","r"," ","x","/","y">>,
    <<"t","o","u","c","h"," ","f",".","t","x","t">>, <<"t","o","u","c","h"," ","f",".","t","x","t"," ","n","e","w",".","t","x","t">>, <<"t","o","u","c","h"," ","d"," ","n","e","w",".","t","x","t">>,
    <<"c","a","t"," ","f",".","t","x","t">>, <<"c","a","t"," ","n","e","w",".","t","x","t">>, <<"c","a","t"," ","d">>, <<"c","a","t"," ","n","o","t","h","i","n","g",".","t","x","t"," ","f",".","t","x","t">>,
    <<"e","d","i","t"," ","f",".","t","x","t"," ","x","y","z">>, <<"c","d"," ","d">>, <<"c","o","u","n","t">>,
    <<"d","e","l","e","t","e"," ","f",".","t","x","t">>, <<"h","o","w"," ","m","a","n","y"," ","f","i","l","e","s"," ","a","r","e"," ","h","e","r","e">>, <<"a","s","d","k","j","a","s","j","d","k">> }
  \cup { echo_line(r.c, r.f) : r \in WriteRequests }

\* the answers the service may give
Responses ==
  { Response("ok", <<"c","o","u","n","t">>), Response("ok", <<"r","m"," ","f",".","t","x","t">>),
    Response("ok", <<"c","p"," ","f",".","t","x","t"," ","g",".","t","x","t">>), Response("ok", <<"d","a","t","e">>),
    Response("ok", <<"s","h","o","w"," ","m","e"," ","t","h","e"," ","f","i","l","e","s">>), Response("ok", <<>>),
    Response("no_candidates", <<>>), Response("http_error", <<>>),
    Response("connection_error", <<>>), Response("timeout", <<>>) }

\* whether an activation on the line asks the service
asks_service(line) ==
  LET words == str_split(line)
      h == builtin(app, words[1], Tail(words))
  IN  \/ h = "cmd_debug_api" /\ has_requests
      \/ h = "" /\ looks_like_natural_language(line) /\ ai_enabled

ResponsesFor(line) ==
  IF asks_service(line) THEN Responses ELSE {Response("none", <<>>)}

\* last.source tells where the line came from: "user" (the prompt), "ai"
\* (the service resolved it) or "fallback" (the patterns resolved it)
NoTrace ==
  [line |-> <<>>, depth |-> 0, source |-> "", route |-> "", handler |-> "",
   args |-> <<>>,
   results |-> <<>>, count |-> [files |-> 0, dirs |-> 0, total |-> 0],
   listing |-> NoListing,
   natural_cmd |-> None, ai_called |-> FALSE, ai_before |-> FALSE,
   response |-> Response("none", <<>>), shell |-> FALSE, fs0 |-> InitFS,
   cwd0 |-> SandboxRoot]

Init ==
  /\ app \in {"cli", "web"}
  /\ fs = InitFS
  /\ cwd = SandboxRoot
  /\ has_requests \in BOOLEAN
  /\ ai_enabled = has_requests
  /\ running = TRUE
  /\ command_history = <<>>
  /\ pending = None
  /\ depth = 0
  /\ typed = None
  /\ last = NoTrace

\* one activation of execute_command on a line, nested d deep
Activation(line, d, resp) ==
  \E o \in {execute_command(app, Session(fs, cwd, ai_enabled, running, has_requests),
                             line, resp)} :
      /\ command_history' = Append(command_history, line)
      /\ fs' = o.fs
      /\ cwd' = o.cwd
      /\ ai_enabled' = o.ai_enabled
      /\ running' = o.running
      /\ pending' = o.next
      /\ depth' = IF o.next = None THEN 0 ELSE d + 1
      /\ typed' = None
      /\ last' = [line |-> line, depth |-> d,
                  source |-> IF d = 0 THEN "user"
                             ELSE IF last.ai_called THEN "ai" ELSE "fallback",
                  route |-> o.route,
                  handler |-> o.handler, args |-> o.args, results |-> o.results,
                  count |-> o.count, listing |-> o.listing,
                  natural_cmd |-> o.natural_cmd,
                  ai_called |-> o.ai_called, ai_before |-> ai_enabled,
                  response |-> resp, shell |-> o.shell, fs0 |-> fs, cwd0 |-> cwd]
      /\ UNCHANGED <<app, has_requests>>

\* the prompt loop reads a line and calls execute_command on it
UserCommand ==
  /\ running
  /\ pending = None
  /\ typed = None
  /\ Len(command_history) < MaxCommands
  /\ \E line \in Lines : \E resp \in ResponsesFor(line) :
       /\ strip(line, Whitespace) # <<>>
       /\ Activation(line, 0, resp)

\* execute_command calls itself on the command a request was resolved to
Reentry ==
  /\ pending # None
  /\ depth <= MaxDepth
  /\ \E resp \in ResponsesFor(pending) : Activation(pending, depth, resp)

Next == UserCommand \/ Reentry

Spec == Init /\ [][Next]_vars


\* ------------------------------------------------------ the resolver alone
\* A request is typed, the patterns are applied to it and it is entered.

\* the first words of the two-word requests
DeleteWords == { <<"d","e","l","e","t","e">>, <<"r","e","m","o","v","e">>, <<"d","e","l">>, <<"D","e","l","e","t","e">>, <<"R","E","M","O","V","E">> }

\* the second words of the two-word requests
TargetWords ==
  { <<"f",".","t","x","t">>, <<"c","o","u","n","t">>, <<"l","i","s","t",".","t","x","t">>, <<"f","o","l","d","e","r">>, <<"f","i","l","e">>, <<"'","f",".","t","x","t","'">>,
    <<"h","o","w">>, <<"d">> }

TwoWordRequests == { a \o <<" ">> \o t : a \in DeleteWords, t \in TargetWords }

\* the names a request gives to the file or folder it asks for
Names == { <<"t","e","s","t",".","p","y">>, <<"n","o","t","e","s">>, <<"R","e","p","o","r","t">>, <<"'","q",".","t","x","t","'">>, <<"p","r","o","j","e","c","t">> }

\* requests to create a file; N stands for the name
FileSentences ==
  { <<<<"c","r","e","a","t","e">>, <<"a">>, <<"f","i","l","e">>, <<"c","a","l","l","e","d">>, <<"N">>>>, <<<<"m","a","k","e">>, <<"f","i","l","e">>, <<"n","a","m","e","d">>, <<"N">>>>,
    <<<<"c","r","e","a","t","e">>, <<"a">>, <<"p","y","t","h","o","n">>, <<"f","i","l","e">>, <<"n","a","m","e","d">>, <<"N">>>>, <<<<"m","a","k","e">>, <<"a">>, <<"f","i","l","e">>, <<"x",".","t","x","t">>, <<"c","a","l","l","e","d">>, <<"N">>>>,
    <<<<"p","l","e","a","s","e">>, <<"c","r","e","a","t","e">>, <<"t","h","e">>, <<"F","i","l","e">>, <<"N","a","m","e","d">>, <<"N">>>>, <<<<"c","r","e","a","t","e">>, <<"a">>, <<"j","a","v","a">>, <<"f","i","l","e">>, <<"c","a","l","l","e","d">>, <<"N">>>>,
    <<<<"r","e","m","o","v","e">>, <<"o","l","d",".","t","x","t">>, <<"a","n","d">>, <<"c","r","e","a","t","e">>, <<"a">>, <<"f","i","l","e">>, <<"c","a","l","l","e","d">>, <<"N">>>>,
    <<<<"c","o","u","n","t">>, <<"t","h","e","m">>, <<"a","n","d">>, <<"m","a","k","e">>, <<"a">>, <<"f","i","l","e">>, <<"c","a","l","l","e","d">>, <<"N">>>>, <<<<"p","l","e","a","s","e">>, <<"m","a","k","e">>, <<"a">>, <<"f","i","l","e">>>>,
    <<<<"c","r","e","a","t","e">>, <<"a">>, <<"h","t","m","l">>, <<"f","i","l","e">>, <<"n","a","m","e","d">>, <<"N">>>>, <<<<"m","a","k","e">>, <<"a">>, <<"c","s","s">>, <<"f","i","l","e">>, <<"c","a","l","l","e","d">>, <<"N">>>>,
    <<<<"c","r","e","a","t","e">>, <<"a">>, <<"j","s">>, <<"f","i","l","e">>, <<"n","a","m","e","d">>, <<"N">>>>, <<<<"m","a","k","e">>, <<"a">>, <<"t","e","x","t">>, <<"f","i","l","e">>, <<"c","a","l","l","e","d">>, <<"N">>>> }

\* a sentence with each N replaced by the name, as one line
sentence(s, name) == join(<<" ">>, [i \in 1..Len(s) |-> IF s[i] = <<"N">> THEN name ELSE s[i]])

FileRequests == { sentence(s, name) : s \in FileSentences, name \in Names }

\* requests to create a folder
FolderSentences ==
  { <<<<"m","a","k","e">>, <<"a">>, <<"f","o","l","d","e","r">>, <<"n","a","m","e","d">>, <<"N">>>>, <<<<"c","r","e","a","t","e">>, <<"a">>, <<"d","i","r","e","c","t","o","r","y">>, <<"c","a","l","l","e","d">>, <<"N">>>>,
    <<<<"c","r","e","a","t","e">>, <<"n","e","w">>, <<"f","o","l","d","e","r">>, <<"N">>>>, <<<<"p","l","e","a","s","e">>, <<"m","a","k","e">>, <<"t","h","e">>, <<"F","o","l","d","e","r">>, <<"N","a","m","e","d">>, <<"N">>>> }

FolderRequests == { sentence(s, name) : s \in FolderSentences, name \in Names }

\* the words a request asks to write, and the files it names
WriteContents ==
  { <<>>, <<<<"h","e","l","l","o">>, <<"w","o","r","l","d">>>>, <<<<"'","h","i","'">>>>, <<<<"i","t","'","s">>>>, <<<<"a">>, <<">">>, <<"b">>>>, <<<<"w","r","i","t","e">>>>,
    <<<<"'","'">>>>, <<<<"H","e","l","l","o">>, <<"t","o">>, <<"y","o","u">>>> }

WriteFiles == { <<"f",".","t","x","t">>, <<"g","r","e","e","t","i","n","g",".","t","x","t">>, <<"'","q",".","t","x","t","'">>, <<"N","o","t","e","s">>, <<"'","'">> }

\* "write w1 .. wk to f" and "Write w1 .. wk IN f"
WriteToRequests ==
  { join(<<" ">>, << <<"w","r","i","t","e">> >> \o c \o << <<"t","o">>, f >>) :
      c \in WriteContents, f \in WriteFiles }
  \cup { join(<<" ">>, << <<"W","r","i","t","e">> >> \o c \o << <<"I","N">>, f >>) :
           c \in WriteContents, f \in WriteFiles }

\* requests to delete a file, by a dotted name, a name after a keyword, a
\* word after the action word, or with no name at all
DeleteRequests ==
  { <<"p","l","e","a","s","e"," ","d","e","l","e","t","e"," ","n","o","t","e","s",".","t","x","t"," ","n","o","w">>, <<"d","e","l","e","t","e"," ","t","h","e"," ","f","i","l","e"," ","n","a","m","e","d"," ","o","l","d">>,
    <<"d","e","l","e","t","e"," ","t","h","e"," ","f","i","l","e"," ","o","l","d"," ","n","o","w">>, <<"r","e","m","o","v","e"," ","o","l","d"," ","p","l","e","a","s","e">>, <<"r","e","m","o","v","e"," ","t","h","e"," ","t","h","i","n","g">>,
    <<"p","l","e","a","s","e"," ","m","o","d","e","l"," ","t","h","e"," ","d","a","t","a">>, <<"d","e","l","e","t","e"," ","t","h","e"," ",".","h","i","d","d","e","n"," ","f","i","l","e">>,
    <<"d","e","l","e","t","e"," ","t","h","e"," ","f","i","l","e"," ","c","a","l","l","e","d"," ","'","q",".","t","x","t","'">>, <<"d","e","l","e","t","e"," ","T","h","e"," ","t","h","i","n","g">>,
    <<"d","e","l","e","t","e"," ","t","h","e"," ","f","i","l","e">>, <<"r","e","m","o","v","e"," ","a"," ","f","i","l","e"," ","n","a","m","e","d"," ","x"," ","a","n","d"," ","d","e","l","e","t","e"," ","y",".","t","x","t">>,
    <<"d","e","l","e","t","e"," ","f","i","l","e"," ","o","l","d"," ","n","a","m","e","d"," ","x">>, <<"r","e","m","o","v","e"," ","t","h","e"," ","a","n"," ","d","e","l","e","t","e"," ","i","t">> }

Requests ==
  DeleteRequests \cup WriteToRequests \cup TwoWordRequests \cup FileRequests \cup FolderRequests \cup
  { <<"h","o","w"," ","m","a","n","y"," ","f","i","l","e","s"," ","a","r","e"," ","h","e","r","e">>, <<"c","r","e","a","t","e"," ","a"," ","f","i","l","e"," ","c","a","l","l","e","d"," ","t","e","s","t",".","p","y">>,
    <<"m","a","k","e"," ","a"," ","f","o","l","d","e","r"," ","n","a","m","e","d"," ","p","r","o","j","e","c","t">>, <<"w","r","i","t","e"," ","h","e","l","l","o"," ","w","o","r","l","d"," ","t","o"," ","g","r","e","e","t","i","n","g",".","t","x","t">>,
    <<"s","h","o","w"," ","m","e"," ","t","h","e"," ","f","i","l","e","s">>, <<"d","e","l","e","t","e"," ","t","h","e"," ","f","o","l","d","e","r"," ","n","a","m","e","d"," ","'","'">>,
    <<"d","e","l","e","t","e"," ","t","h","e"," ","f","i","l","e"," ","c","a","l","l","e","d"," ","f",".","t","x","t">>, <<"r","e","m","o","v","e"," ","f","o","l","d","e","r"," ","d">>,
    <<"w","h","a","t"," ","i","s"," ","t","h","e"," ","w","e","a","t","h","e","r">>, <<"a","s","d","k","j","a","s","j","d","k">>, <<"d","a","t","e">>,
    <<"t","e","l","l"," ","m","e"," ","a"," ","s","t","o","r","y">>,
    <<"h","o","w"," ","m","a","n","y"," ","f","i","l","e","s"," ","s","h","o","u","l","d"," ","I"," ","d","e","l","e","t","e">>, <<"c","o","u","n","t"," ","t","h","e"," ","f","o","l","d","e","r","s"," ","a","n","d"," ","r","e","m","o","v","e"," ","o","l","d",".","t","x","t">>,
    <<"w","r","i","t","e"," ","t","h","e"," ","n","u","m","b","e","r"," ","o","f"," ","f","i","l","e","s"," ","t","o"," ","n",".","t","x","t">>, <<"s","h","o","w"," ","m","e"," ","h","o","w"," ","m","a","n","y"," ","f","i","l","e","s">>,
    <<"c","r","e","a","t","e"," ","a"," ","f","i","l","e"," ","w","i","t","h"," ","t","h","e"," ","f","i","l","e","s"," ","c","o","u","n","t">>, <<"c","o","u","n","t"," ","f","i","l","e","s">>,
    <<"H","o","w"," ","M","a","n","y"," ","f","o","l","d","e","r","s"," ","d","i","d"," ","I"," ","m","a","k","e">>,
    <<"C","r","e","a","t","e"," ","a"," ","f","i","l","e"," ","c","a","l","l","e","d"," ","T","e","s","t",".","P","Y">>, <<"d","e","l","e","t","e"," ","t","h","e"," ","f","o","l","d","e","r"," ","N","a","m","e","d"," ","O","l","d">>,
    <<"d","e","l","e","t","e"," ","t","h","e"," ","F","i","l","e"," ","N","a","m","e","d"," ","O","l","d">>, <<"R","e","m","o","v","e"," ","t","h","e"," ","F","o","l","d","e","r"," ","c","a","l","l","e","d"," ","O","l","d">>,
    <<"D","E","L","E","T","E"," ","t","h","e"," ","f","i","l","e"," ","O","l","d",".","T","X","T">> }

InitResolve ==
  /\ app \in {"cli", "web"}
  /\ fs = InitFS
  /\ cwd = SandboxRoot
  /\ has_requests \in BOOLEAN
  /\ ai_enabled = has_requests
  /\ running = TRUE
  /\ command_history = <<>>
  /\ pending = None
  /\ depth = 0
  /\ typed \in Requests
  /\ last = NoTrace

\* parse_with_fallback_patterns applied to the request
Resolve ==
  /\ typed # None
  /\ last.route = ""
  /\ last' = [NoTrace EXCEPT !.line = typed, !.route = "patterns",
                             !.natural_cmd = fallback(app, typed)]
  /\ UNCHANGED <<app, fs, cwd, ai_enabled, has_requests, running,
                 command_history, pending, depth, typed>>

\* execute_command on a blank line returns at once
Dropped(line) ==
  /\ typed' = None
  /\ last' = [NoTrace EXCEPT !.line = line, !.source = "user",
                             !.route = "dropped", !.ai_before = ai_enabled,
                             !.fs0 = fs, !.cwd0 = cwd]
  /\ UNCHANGED <<app, fs, cwd, ai_enabled, has_requests, running,
                 command_history, pending, depth>>

\* the request is entered at the prompt
Enter ==
  /\ running
  /\ pending = None
  /\ typed # None
  /\ IF strip(typed, Whitespace) = <<>> THEN Dropped(typed)
     ELSE \E resp \in ResponsesFor(typed) : Activation(typed, 0, resp)

NextResolve == Resolve \/ Enter \/ Reentry

SpecResolve == InitResolve /\ [][NextResolve]_vars



\* ------------------------------------------------------ one command alone
\* A session stands in some directory of the tree and one command is typed
\* and entered.

\* a symbolic link whose target does not exist: os.listdir names it,
\* os.path.isfile and os.path.isdir are false of it
LinkNode == [kind |-> "link", content |-> <<>>]

\* the tree above with more in the working directory: two more files, of
\* which one has a capital, and one more directory
MixedFS ==
  InitFS @@
  (<< <<"w","s">>, <<"Z",".","t","x","t">> >> :> FileNode(<<"z","z">>)) @@
  (<< <<"w","s">>, <<"a",".","t","x","t">> >> :> FileNode(<<>>)) @@
  (<< <<"w","s">>, <<"x">> >> :> DirNode)

\* the tree above with a dangling link in the directory d
LinkFS == InitFS @@ (<< <<"w","s">>, <<"d">>, <<"l","i","n","k">> >> :> LinkNode)

Trees == { InitFS, MixedFS, LinkFS }

\* the directories the session may stand in
Dirs == { SandboxRoot, << <<"w","s">>, <<"d">> >>, << <<"w","s">>, <<"e">> >> }

\* the commands typed
Commands ==
  { <<"m","k","d","i","r">>, <<"t","o","u","c","h">>, <<"c","a","t">>, <<"r","m">>, <<"d","e","l">>, <<"r","m","d","i","r">>, <<"r","m","d","i","r"," ","-","r">>,
    <<"m","k","d","i","r"," ","x">>, <<"r","m"," ","f",".","t","x","t">>, <<"l","s">>, <<"c","o","u","n","t">>,
    <<"r","m","d","i","r"," ","-","r"," ","d">>, <<"r","m","d","i","r"," ","d"," ","-","r">>, <<"r","m","d","i","r"," ","-","r"," ","e"," ","d">>, <<"r","m","d","i","r"," ","d"," ","-","r"," ","e">>,
    <<"r","m","d","i","r"," ","-","r"," ","f",".","t","x","t">>, <<"r","m","d","i","r"," ","n","o","t","h","i","n","g"," ","-","r"," ","d">>, <<"r","m","d","i","r"," ","-","r"," ","-","r"," ","d">>,
    <<"r","m","d","i","r"," ","-","r"," ",".">>, <<"r","m","d","i","r"," ","-","r"," ","d","/",".",".">>, <<"r","m","d","i","r"," ","d","/"," ","-","r">>, <<"r","m","d","i","r"," ","-","r"," ",".",".","/","d">>,
    <<"c","d"," ","d">>, <<"c","d"," ",".",".">>, <<"c","d">>, <<"c","d"," ","n","o","t","h","i","n","g">>, <<"c","d"," ","f",".","t","x","t">>, <<"c","d"," ","/","e","t","c">>,
    <<"c","d"," ","n","o","t","h","i","n","g","/",".",".">>,
    <<"r","m"," ","t","h","e"," ","f","i","l","e","s"," ","p","l","e","a","s","e">>, <<"l","s"," ","w","h","a","t"," ","i","s"," ","h","e","r","e">>, <<"c","o","u","n","t"," ","t","h","e"," ","f","i","l","e","s">>,
    <<"m","k","d","i","r"," ","p","l","e","a","s","e"," ","c","r","e","a","t","e"," ","i","t">>, <<"R","M"," ","f",".","t","x","t">>, <<"L","s">>, <<"d","e","b","u","g","-","a","p","i">>,
    <<"s","h","o","w"," ","m","e"," ","t","h","e"," ","f","i","l","e","s">>, <<"a","s","d","k","j","a","s","j","d","k">>, <<"g","o"," ","t","o"," ","t","h","e"," ","s","t","o","r","e">>, <<"x"," ","y"," ","z">>,
    <<"t","o"," ","d","o">>, <<>>, <<" ">>, <<" "," "," ">> }

InitCommand ==
  /\ app \in {"cli", "web"}
  /\ fs \in Trees
  /\ cwd \in Dirs
  /\ has_requests \in BOOLEAN
  /\ ai_enabled = has_requests
  /\ running = TRUE
  /\ command_history = <<>>
  /\ pending = None
  /\ depth = 0
  /\ typed \in Commands
  /\ last = NoTrace

NextCommand == Enter

SpecCommand == InitCommand /\ [][NextCommand]_vars


\* ------------------------------------------------- the first page alone
\* A session of the first page: lines are submitted in one of its two
\* modes, the buttons of the sidebar are pressed.

\* the lines submitted
PageInputs ==
  { <<"l","s">>, <<"c","o","u","n","t">>, <<"m","k","d","i","r"," ","x">>, <<"m","k","d","i","r">>, <<"t","o","u","c","h"," ","a",".","t","x","t">>, <<"a","s","d","k","j","a","s","j","d","k">>,
    <<"c","r","e","a","t","e"," ","a"," ","f","o","l","d","e","r"," ","n","a","m","e","d"," ","p","r","o","j","e","c","t">>, <<"m","a","k","e"," ","a"," ","f","o","l","d","e","r"," ","n","a","m","e","d"," ","p","r","o","j","e","c","t">>,
    <<"s","h","o","w"," ","m","e"," ","t","h","e"," ","f","i","l","e","s">>, <<"e","c","h","o"," ","a"," ",">"," ","b">>, <<>>, <<" ">>, <<" "," "," ">> }

PageModes == {"Command", "Natural language"}

InitPage ==
  /\ app = "page"
  /\ fs \in Trees
  /\ cwd = SandboxRoot
  /\ has_requests = FALSE
  /\ ai_enabled \in BOOLEAN
  /\ running = TRUE
  /\ command_history = <<>>
  /\ pending = None
  /\ depth = 0
  /\ typed = None
  /\ last = NoTrace

\* run_command on a resolved command, were the entry put in front of the
\* history
PageRun_in_front(input, mode, resolved_cmd) ==
  \E r \in {run_command(resolved_cmd)} :
    /\ command_history' = <<input>> \o command_history
    /\ last' = [NoTrace EXCEPT
                  !.line = input, !.source = "user", !.route = mode,
                  !.handler = "run_command", !.natural_cmd = resolved_cmd,
                  !.results = <<r.output>>,
                  !.count = IF r.output.kind = "count" THEN page_count ELSE @,
                  !.listing = IF r.output.kind = "ls" THEN page_ls ELSE @,
                  !.fs0 = fs, !.cwd0 = cwd]
    /\ UNCHANGED <<app, fs, cwd, ai_enabled, has_requests, running, pending,
                   depth, typed>>

\* run_command on a resolved command, and the entry appended to the history
PageRun(input, mode, resolved_cmd) ==
  \E r \in {run_command(resolved_cmd)} :
    /\ command_history' = Append(command_history, input)
    /\ last' = [NoTrace EXCEPT
                  !.line = input, !.source = "user", !.route = mode,
                  !.handler = "run_command", !.natural_cmd = resolved_cmd,
                  !.results = <<r.output>>,
                  !.count = IF r.output.kind = "count" THEN page_count ELSE @,
                  !.listing = IF r.output.kind = "ls" THEN page_ls ELSE @,
                  !.fs0 = fs, !.cwd0 = cwd]
    /\ UNCHANGED <<app, fs, cwd, ai_enabled, has_requests, running, pending,
                   depth, typed>>

\* the Execute button with a line in the input field (a request held back
\* by the rate limit shows an error and changes nothing)
PageExecute ==
  /\ Len(command_history) < MaxCommands
  /\ \E input \in PageInputs, mode \in PageModes :
       /\ input # <<>>
       /\ PageRun(input, mode,
                  IF mode = "Natural language" THEN nl_to_command(input) ELSE input)

\* a button of the quick commands
PageQuick ==
  /\ Len(command_history) < MaxCommands
  /\ \E cmd \in quick_cmds : PageRun(cmd, "Command", cmd)

\* the commands of the Demo Script button
demo_commands == << <<"m","k","d","i","r"," ","t","e","s","t">>, <<"l","s">>, <<"c","d"," ","t","e","s","t">>, <<"t","o","u","c","h"," ","a",".","t","x","t">>, <<"l","s">> >>

\* the Demo Script button: run_command on each command in turn, an entry
\* appended for each
PageDemo ==
  /\ Len(command_history) < MaxCommands
  /\ \E r \in {run_command(demo_commands[Len(demo_commands)])} :
       last' = [NoTrace EXCEPT
                  !.line = demo_commands[Len(demo_commands)], !.source = "user",
                  !.route = "Command", !.handler = "run_command",
                  !.natural_cmd = demo_commands[Len(demo_commands)],
                  !.results = <<r.output>>,
                  !.count = IF r.output.kind = "count" THEN page_count ELSE @,
                  !.listing = IF r.output.kind = "ls" THEN page_ls ELSE @,
                  !.fs0 = fs, !.cwd0 = cwd]
  /\ command_history' = command_history \o demo_commands
  /\ UNCHANGED <<app, fs, cwd, ai_enabled, has_requests, running, pending,
                 depth, typed>>

\* the Clear Terminal button
PageClear ==
  /\ command_history # <<>>
  /\ command_history' = <<>>
  /\ UNCHANGED <<app, fs, cwd, ai_enabled, has_requests, running, pending,
                 depth, typed, last>>

NextPage == PageExecute \/ PageQuick \/ PageDemo \/ PageClear

SpecPage == InitPage /\ [][NextPage]_vars
\* ----------------------------------------------------------------- claims

\* the first word of a line
first_word(line) == str_split(line)[1]

\* the commands the dispatcher of the session's front end knows
KnownCommands == IF app = "cli" THEN DOMAIN command_map ELSE web_commands

\* the handlers that work on files
FileHandlers ==
  {"cmd_rm", "cmd_rmdir", "cmd_rmdir_force", "cmd_mkdir", "cmd_touch",
   "cmd_cat", "cmd_echo", "cmd_edit"}

\* the handlers that take several targets
MultiTarget == {"cmd_rm", "cmd_rmdir", "cmd_touch", "cmd_mkdir", "cmd_cat"}

\* whether a target named in the directory c lies outside the sandbox
escapes(c, name) ==
  ~is_prefix(SandboxRoot, normpath(<<>>, os_path_join(c, name)))

\* nothing outside the sandbox was changed by the latest activation
OutsideUnchanged ==
  \A p \in DOMAIN fs \cup DOMAIN last.fs0 :
    ~is_prefix(SandboxRoot, p) =>
      p \in DOMAIN fs /\ p \in DOMAIN last.fs0 /\ fs[p] = last.fs0[p]

\* the filesystem after the handler h was called on each of the targets
\* alone, one after the other
RECURSIVE after_targets(_, _, _)
after_targets(h, f, targets) ==
  IF targets = <<>> THEN f
  ELSE after_targets(h, file_handler(app, h, f, last.cwd0, <<Head(targets)>>).fs,
                     Tail(targets))

\* the filesystem the i-th target of the latest activation was processed in
before_target(i) ==
  after_targets(last.handler, last.fs0, SubSeq(last.args, 1, i - 1))

\* the path of the i-th target of the latest activation
target_path(i) == os_path_join(last.cwd0, last.args[i])

\* C1: a file handler whose target resolves outside the sandbox reports a
\* failure, and no file handler creates, changes or removes anything
\* outside the sandbox.
C1_SandboxViolationReported ==
  last.handler \in FileHandlers =>
    /\ \A i \in DOMAIN last.results :
         escapes(last.cwd0, last.results[i].target) =>
           last.results[i].kind \in FailureKinds
    /\ OutsideUnchanged

\* the service gave no usable text
service_failed(resp) == resp.kind # "ok" \/ strip(resp.text, Whitespace) = <<>>

\* C2: when the service was asked and failed (HTTP status other than 200,
\* connection error, timeout, no candidate, empty text), the request is
\* resolved to what the patterns give for it.
C2_FallbackAfterServiceFailure ==
  (last.ai_called /\ last.handler = "" /\ service_failed(last.response)) =>
    last.natural_cmd = fallback(app, last.line)

\* C3: a command that came out of resolution, from the service or from the
\* patterns, starts with a known command and never reaches the system
\* shell.
C3_ResolvedVerbKnown ==
  last.source \in {"ai", "fallback"} =>
    first_word(last.line) \in KnownCommands /\ ~last.shell

\* a request of two words whose first is delete, remove or del in any case
two_word_delete(line) ==
  Len(str_split(line)) = 2 /\ lower(str_split(line)[1]) \in delete_phrases

\* C4: in either front end the patterns resolve a two-word delete request
\* to rm with the second word, unchanged, as its argument, whatever keyword
\* the second word contains.
C4_TwoWordDelete ==
  (last.route = "patterns" /\ two_word_delete(last.line)) =>
    last.natural_cmd = <<"r","m"," ">> \o str_split(last.line)[2]

\* C5: rmdir on a target that is a directory with something in it reports
\* that the directory is not empty and changes nothing; every target gets
\* its message and the targets after it are processed.
C5_RmdirKeepsNonEmpty ==
  last.handler = "cmd_rmdir" =>
    /\ Len(last.results) = Len(last.args)
    /\ fs = before_target(Len(last.args) + 1)
    /\ \A i \in DOMAIN last.args :
         \E f \in {before_target(i)} :
           (/\ isdir(f, target_path(i))
            /\ children(f, walk(f, <<>>, target_path(i)).path) # {}) =>
             /\ last.results[i] = Msg("not_empty", last.args[i], <<>>)
             /\ before_target(i + 1) = f

\* "rmdir nothing d e": d is kept with its file, e is removed after it
C5_Witness ==
  /\ last.handler = "cmd_rmdir"
  /\ last.args = << <<"n","o","t","h","i","n","g">>, <<"d">>, <<"e">> >>
  /\ last.results[2].kind = "not_empty"
  /\ last.results[3].kind = "dir_removed"
  /\ << <<"w","s">>, <<"d">>, <<"g",".","t","x","t">> >> \in DOMAIN fs
  /\ << <<"w","s">>, <<"e">> >> \in DOMAIN last.fs0
  /\ << <<"w","s">>, <<"e">> >> \notin DOMAIN fs

\* an activation has just been made
Activated == command_history' # command_history

C7_WriteThenRead ==
  \A r \in WriteRequests :
    (/\ app = "web"
     /\ Len(command_history) >= 2
     /\ command_history[Len(command_history) - 1] = echo_line(r.c, r.f)
     /\ command_history[Len(command_history)] = <<"c","a","t"," ">> \o r.f) =>
      last.results = << Msg("content", r.f, r.c) >>

\* C8: touch keeps every entry that exists as it is, content included;
\* what it adds is an empty file at a target it reports as touched; a
\* target reported as touched is a file afterwards.
C8_TouchKeepsContent ==
  last.handler = "cmd_touch" =>
    /\ \A p \in DOMAIN last.fs0 : p \in DOMAIN fs /\ fs[p] = last.fs0[p]
    /\ \A p \in DOMAIN fs \ DOMAIN last.fs0 :
         /\ fs[p] = FileNode(<<>>)
         /\ \E i \in DOMAIN last.args :
              /\ last.results[i].kind = "touched"
              /\ walk(fs, <<>>, target_path(i)).path = p
    /\ \A i \in DOMAIN last.results :
         last.results[i].kind = "touched" =>
           isfile(fs, os_path_join(last.cwd0, last.results[i].target))

\* "touch f.txt new.txt": f.txt still holds abc, new.txt is new and empty
C8_Witness ==
  /\ last.handler = "cmd_touch"
  /\ last.args = << <<"f",".","t","x","t">>, <<"n","e","w",".","t","x","t">> >>
  /\ last.results[1].kind = "touched"
  /\ last.results[2].kind = "touched"
  /\ fs[<< <<"w","s">>, <<"f",".","t","x","t">> >>] = FileNode(<<"a","b","c">>)
  /\ << <<"w","s">>, <<"n","e","w",".","t","x","t">> >> \notin DOMAIN last.fs0
  /\ fs[<< <<"w","s">>, <<"n","e","w",".","t","x","t">> >>] = FileNode(<<>>)

\* C9: rm on a target that is not a file (absent, or a directory) reports
\* a failure and changes nothing; rm never removes a directory.
C9_RmFailsOnAbsentOrDirectory ==
  (last.handler = "cmd_rm" /\ last.args # <<>>) =>
    /\ Len(last.results) = Len(last.args)
    /\ fs = before_target(Len(last.args) + 1)
    /\ \A p \in DOMAIN last.fs0 : last.fs0[p].kind = "dir" => p \in DOMAIN fs
    /\ \A i \in DOMAIN last.args :
         \E f \in {before_target(i)} :
           ~isfile(f, target_path(i)) =>
             /\ last.results[i].kind \in {"not_found", "is_directory"}
             /\ last.results[i].target = last.args[i]
             /\ before_target(i + 1) = f

\* "rm d" on the directory d, and earlier "rm nothing.txt f.txt"
C9_Witness ==
  /\ command_history = << <<"r","m"," ","n","o","t","h","i","n","g",".","t","x","t"," ","f",".","t","x","t">>, <<"r","m"," ","d">> >>
  /\ last.handler = "cmd_rm"
  /\ last.results[1].kind \in {"not_found", "is_directory"}
  /\ fs = last.fs0
  /\ fs[<< <<"w","s">>, <<"d">> >>] = DirNode
  /\ << <<"w","s">>, <<"d">>, <<"g",".","t","x","t">> >> \in DOMAIN fs

\* C10: rm, rmdir, touch, mkdir and cat called on several targets give one
\* message per target, in the order of the targets; the message of a target
\* is the one the handler gives when called on that target alone after the
\* targets before it, whether those failed or not, and the filesystem left
\* is the one left by these calls.
C10_EachTargetOnceInOrder ==
  (last.handler \in MultiTarget /\ last.args # <<>>) =>
    /\ Len(last.results) = Len(last.args)
    /\ fs = before_target(Len(last.args) + 1)
    /\ \A i \in DOMAIN last.args :
         /\ last.results[i].target = last.args[i]
         /\ << last.results[i] >> =
              file_handler(app, last.handler, before_target(i), last.cwd0,
                           << last.args[i] >>).results

\* "rm d f.txt e": d fails, f.txt is removed after it, e fails after that
C10_Witness ==
  /\ last.handler = "cmd_rm"
  /\ last.args = << <<"d">>, <<"f",".","t","x","t">>, <<"e">> >>
  /\ last.results[1].kind \in FailureKinds
  /\ last.results[2].kind = "removed"
  /\ last.results[3].kind \in FailureKinds
  /\ << <<"w","s">>, <<"f",".","t","x","t">> >> \notin DOMAIN fs


\* ------------------------------------------------ claims about the verbs

\* the verbs that need at least one argument
ArityVerbs == { <<"m","k","d","i","r">>, <<"t","o","u","c","h">>, <<"c","a","t">>, <<"r","m">>, <<"d","e","l">>, <<"r","m","d","i","r">> }

\* the latest activation was on a line typed by the user that is one of
\* these verbs with no argument
bare_verb ==
  /\ last.source = "user"
  /\ Len(str_split(last.line)) = 1
  /\ first_word(last.line) \in ArityVerbs

\* C11: a verb that needs an argument and is entered with none gets the
\* usage message of its handler and nothing else happens: the filesystem
\* is as before, the line is not resolved as natural language and not
\* handed to execute_system_command.
C11_BareVerbGivesUsage ==
  bare_verb =>
    /\ last.route = "builtin"
    /\ last.results = <<Usage>>
    /\ fs = last.fs0
    /\ ~last.shell
    /\ ~last.ai_called

\* ------------------------------------------- claims about the patterns

\* the patterns have been applied to the request typed
Resolved == last.route = "patterns" /\ last.line = typed

\* the words of the request, lowercased
lower_words == str_split(lower(last.line))

\* the words of the request as typed
original_words == str_split(last.line)

\* the request asks to create something
creating == any_in({ <<"c","r","e","a","t","e">>, <<"m","a","k","e">> }, lower(last.line))

\* the places of "named" and "called" that have a word after them
name_keys ==
  {i \in 1..(Len(lower_words) - 1) : lower_words[i] \in named_called}

\* the places that introduce the name of a file: "named", "called", and
\* "file" when the word after it is neither of them
file_keys ==
  {i \in 1..(Len(lower_words) - 1) :
     \/ lower_words[i] \in named_called
     \/ lower_words[i] = <<"f","i","l","e">> /\ lower_words[i + 1] \notin named_called}

\* an earlier rule takes the request: the two-word form, counting, deletion
earlier_than_creation ==
  \/ Len(original_words) <= 2
  \/ any_in(count_phrases, lower(last.line))
  \/ any_in(delete_phrases, lower(last.line))

\* the extensions a resolver may add to a name that has none
Extensions == { <<>>, <<".","j","a","v","a">>, <<".","p","y">>, <<".","t","x","t">>, <<".","h","t","m","l">>, <<".","c","s","s">>, <<".","j","s">> }

\* C12 as stated: a request with create or make, with "file" and with a
\* word after "named" or "called" resolves to touch followed by that word.
C12_FileNamedToken ==
  (Resolved /\ creating /\ str_in(<<"f","i","l","e">>, lower(last.line)) /\ name_keys # {})
    => last.natural_cmd = <<"t","o","u","c","h"," ">> \o original_words[min_of(name_keys) + 1]

\* C12, amended: when no earlier rule takes the request it resolves to
\* touch with one argument, and when the word after the first introducing
\* place is not empty without its quotes, the argument is, up to letter
\* case, that word with its quotes stripped, followed by an extension only
\* when the word has no dot.
C12_FileNamedTokenStripped ==
  (/\ Resolved /\ creating /\ str_in(<<"f","i","l","e">>, lower(last.line))
   /\ ~earlier_than_creation)
    => /\ Len(str_split(last.natural_cmd)) = 2
       /\ first_word(last.natural_cmd) = <<"t","o","u","c","h">>
       /\ \A k \in file_keys :
            LET token == strip(original_words[k + 1], Quotes)
            IN  (k = min_of(file_keys) /\ token # <<>>) =>
                  \E ext \in Extensions :
                    /\ lower(last.natural_cmd) = <<"t","o","u","c","h"," ">> \o lower(token) \o ext
                    /\ str_in(<<".">>, token) => ext = <<>>

\* a name without a dot, in quotes or after another introducing word, has
\* been resolved
C12_Witness ==
  /\ Resolved /\ creating /\ ~earlier_than_creation
  /\ file_keys # {} /\ name_keys # {}
  /\ last.natural_cmd \in { <<"t","o","u","c","h"," ","q",".","t","x","t">>, <<"t","o","u","c","h"," ","n","o","t","e","s",".","t","x","t">>, <<"t","o","u","c","h"," ","x",".","t","x","t">> }

\* the places that introduce the name of a folder
folder_keys ==
  {i \in 1..(Len(lower_words) - 1) :
     \/ lower_words[i] \in named_called
     \/ /\ lower_words[i] \in folder_directory
        /\ lower(strip(original_words[i + 1], Quotes)) \notin named_called}

\* the request asks for a folder and no earlier rule takes it
folder_request ==
  /\ Resolved /\ creating /\ ~earlier_than_creation
  /\ any_in(folder_directory, lower(last.line))
  /\ ~str_in(<<"f","i","l","e">>, lower(last.line))

\* C13: a request with create or make, with "folder" or "directory" and
\* without "file" resolves to mkdir followed by the word after "named" or
\* "called", and to "mkdir newfolder" only when no word gives the name.
C13_FolderNamedToken ==
  folder_request =>
    /\ name_keys # {} =>
         \/ last.natural_cmd = <<"m","k","d","i","r"," ">> \o original_words[min_of(name_keys) + 1]
         \/ last.natural_cmd =
              <<"m","k","d","i","r"," ">> \o strip(original_words[min_of(name_keys) + 1], Quotes)
    /\ last.natural_cmd = <<"m","k","d","i","r"," ","n","e","w","f","o","l","d","e","r">> => folder_keys = {}

\* the places of "to" and "in" that have a word after them
to_places == {i \in 1..(Len(lower_words) - 1) : lower_words[i] \in to_in}

\* the request reads "write w1 .. wk to|in f ..." and no earlier rule of
\* streamlit_app.py takes it
write_request ==
  /\ Resolved /\ app = "web"
  /\ lower_words # <<>> /\ lower_words[1] = <<"w","r","i","t","e">>
  /\ to_places # {}
  /\ ~earlier_than_creation
  /\ ~(creating /\ any_in({ <<"f","i","l","e">> } \cup folder_directory, lower(last.line)))

\* the words strictly between "write" and the first "to"/"in"
between_words == SubSeq(original_words, 2, min_of(to_places) - 1)

\* the word right after the first "to"/"in"
written_file == original_words[min_of(to_places) + 1]

\* C14 as stated: the request resolves to the write of the words between
\* "write" and the first "to"/"in", joined by single spaces, to the file
\* named right after it, and to touch of that file when there is no word
\* between.
C14_WriteWordsToFile ==
  write_request =>
    last.natural_cmd =
      IF between_words # <<>>
      THEN <<"e","c","h","o"," ">> \o join(<<" ">>, between_words) \o <<" ",">"," ">> \o written_file
      ELSE <<"t","o","u","c","h"," ">> \o written_file

\* C14, amended: the file name is the word with its quotes stripped, the
\* content is the words other than "write" joined by single spaces with
\* the quotes at its two ends stripped, and the request resolves to touch
\* when that content is empty; for a file name that is not empty.
C14_WriteStrippedToFile ==
  (write_request /\ strip(written_file, Quotes) # <<>>) =>
    LET content == strip(join(<<" ">>, SelectSeq(between_words,
                                          LAMBDA w : lower(w) # <<"w","r","i","t","e">>)), Quotes)
        f == strip(written_file, Quotes)
    IN  last.natural_cmd =
          IF content # <<>> THEN <<"e","c","h","o"," ">> \o content \o <<" ",">"," ">> \o f
          ELSE <<"t","o","u","c","h"," ">> \o f

\* a content with a second "to" in it, and a content in quotes, have been
\* resolved
C14_Witness ==
  /\ write_request
  /\ last.natural_cmd \in { <<"e","c","h","o"," ","H","e","l","l","o"," ",">"," ","y","o","u">>, <<"e","c","h","o"," ","h","i"," ",">"," ","q",".","t","x","t">> }

\* no rule of the patterns matches the line: it is not a two-word form and
\* holds no counting, deletion, creation, write, listing or contents word
no_rule(line) ==
  /\ ~(Len(str_split(line)) = 2 /\ direct_form(str_split(line)) # None)
  /\ ~any_in(count_phrases \cup delete_phrases \cup list_phrases \cup here_phrases,
             lower(line))
  /\ ~any_in({ <<"c","r","e","a","t","e">>, <<"m","a","k","e">>, <<"w","r","i","t","e">> }, lower(line))

\* C15: for a request no rule matches the patterns give no command, and
\* when it is entered nothing is run: no command is resolved from it, the
\* line itself is not handed to a shell and the filesystem stays as it is.
C15_UnmatchedIsRefused ==
  /\ (Resolved /\ no_rule(last.line)) => last.natural_cmd = None
  /\ (/\ last.source = "user" /\ last.line # <<>> /\ no_rule(last.line)
      /\ first_word(last.line) \notin KnownCommands)
       => /\ last.natural_cmd = None /\ pending = None
          /\ ~last.shell
          /\ fs = last.fs0

\* the first words the two-word rule acts on
ActionWords == { <<"d","e","l","e","t","e">>, <<"r","e","m","o","v","e">>, <<"d","e","l">>, <<"c","r","e","a","t","e">>, <<"m","a","k","e">>, <<"m","k","d","i","r">>, <<"r","m","d","i","r">> }

\* the two-word rule takes the request
two_word_form == Len(original_words) = 2 /\ lower_words[1] \in ActionWords

\* the request holds a counting phrase
counting ==
  any_in({ <<"c","o","u","n","t">>, <<"h","o","w"," ","m","a","n","y">>, <<"n","u","m","b","e","r"," ","o","f"," ","f","i","l","e","s">>, <<"f","i","l","e","s"," ","c","o","u","n","t">> },
         lower(last.line))

\* the request holds a word of a later rule: deletion, creation, write,
\* listing
later_rule_word ==
  any_in(delete_phrases \cup list_phrases \cup { <<"c","r","e","a","t","e">>, <<"m","a","k","e">>, <<"w","r","i","t","e">> },
         lower(last.line))

\* C16: a request with a counting phrase that the two-word rule does not
\* take resolves to count, with no argument, whatever words of the later
\* rules it holds.
C16_CountingFirst ==
  (Resolved /\ counting /\ ~two_word_form) => last.natural_cmd = <<"c","o","u","n","t">>

\* a request with a counting phrase and a word of a later rule has been
\* resolved to count
C16_Witness ==
  /\ Resolved /\ counting /\ ~two_word_form /\ later_rule_word
  /\ any_in(delete_phrases, lower(last.line))
  /\ last.natural_cmd = <<"c","o","u","n","t">>

\* ------------------------------------- claims about listing and counting

\* the latest activation listed the working directory
list_done ==
  \/ last.handler = "cmd_ls"
  \/ last.handler = "run_command" /\ last.results = <<Msg("ls", <<>>, <<>>)>>

\* the entries are the items of the directory p of the tree f, each once,
\* in the order of their names, the directories marked as such
lists_children(entries, f, p) ==
  /\ Len(entries) = Cardinality(listdir(f, p))
  /\ {entries[i].name : i \in DOMAIN entries} = listdir(f, p)
  /\ \A i, j \in DOMAIN entries : i < j => str_less(entries[i].name, entries[j].name)
  /\ \A i \in DOMAIN entries :
       entries[i].type = IF f[p \o <<entries[i].name>>].kind = "dir" THEN "dir" ELSE "file"

\* C17: a listing shows the items of the working directory and nothing
\* else, sorted by name, each marked file or directory; for an empty
\* directory it says so and that is not an error; the filesystem stays as
\* it is.  The tree of the first page's sidebar lists the same way.
C17_ListSortedChildren ==
  /\ list_done =>
       /\ ~last.listing.error
       /\ lists_children(last.listing.entries, last.fs0, last.cwd0)
       /\ last.listing.empty <=> listdir(last.fs0, last.cwd0) = {}
       /\ fs = last.fs0
  /\ app = "page" => lists_children(list_tree(fs, cwd), fs, cwd)

\* the latest activation counted the items of the working directory
count_done ==
  \/ last.handler = "cmd_count"
  \/ last.handler = "run_command" /\ last.results = <<Msg("count", <<>>, <<>>)>>

\* C18: count reports how many files and how many directories the working
\* directory holds itself, not what its subdirectories hold, and the total
\* it reports is the sum of the two.
C18_CountDirectChildren ==
  count_done =>
    LET items == children(last.fs0, last.cwd0)
    IN  /\ last.count.files = Cardinality({q \in items : last.fs0[q].kind = "file"})
        /\ last.count.dirs = Cardinality({q \in items : last.fs0[q].kind = "dir"})
        /\ last.count.total = last.count.files + last.count.dirs

\* ------------------------------------------- claims about rmdir -r and cd

\* the words of the line after the verb, "-r" left out
forced_targets ==
  SelectSeq(Tail(str_split(last.line)), LAMBDA w : w # <<"-","r">>)

\* the tree f without the directory p and all that is below it
without_subtree(f, p) == [q \in {x \in DOMAIN f : ~is_prefix(p, x)} |-> f[q]]

\* C19: rmdir with "-r" anywhere among its arguments handles each other
\* argument in turn: a name of an existing directory is removed with all
\* that is below it and reported as removed; any other name is reported as
\* a failure and nothing changes.
C19_ForcedRmdirRemovesSubtree ==
  (last.handler = "cmd_rmdir_force" /\ last.source = "user") =>
    /\ last.args = forced_targets
    /\ Len(last.results) = Len(last.args)
    /\ fs = before_target(Len(last.args) + 1)
    /\ \A i \in DOMAIN last.args :
         \E f \in {before_target(i)} :
           IF isdir(f, target_path(i))
           THEN /\ last.results[i] = Msg("dir_removed", last.args[i], <<>>)
                /\ before_target(i + 1) =
                     without_subtree(f, walk(f, <<>>, target_path(i)).path)
           ELSE /\ last.results[i].kind \in FailureKinds
                /\ before_target(i + 1) = f

\* the directory a cd line names: the home directory when it names none
cd_names_directory ==
  IF last.args = <<>> THEN isdir(last.fs0, HomeDir)
  ELSE isdir(last.fs0, os_path_join(last.cwd0, last.args[1]))

\* C20: the working directory is always an existing directory inside the
\* sandbox; cd to a name that is not an existing directory reports that and
\* leaves the working directory as it is; no other command changes it.
C20_CwdExistsInSandbox ==
  /\ cwd \in DOMAIN fs /\ fs[cwd].kind = "dir"
  /\ is_prefix(SandboxRoot, cwd)
  /\ (last.handler = "cmd_cd" /\ ~cd_names_directory) =>
       /\ cwd = last.cwd0
       /\ last.results = <<Msg("dir_not_found", last.args[1], <<>>)>>
  /\ (last.line # <<>> /\ last.handler # "cmd_cd") => cwd = last.cwd0

\* ------------------------------------ claims about names and extensions

\* the extension the priority order gives for a request: java, then
\* python or py, txt or text, html, css, js or javascript, else .txt
extension_by_priority(cmd_lower) ==
  IF str_in(<<"j","a","v","a">>, cmd_lower) THEN <<".","j","a","v","a">>
  ELSE IF str_in(<<"p","y","t","h","o","n">>, cmd_lower) \/ str_in(<<"p","y">>, cmd_lower) THEN <<".","p","y">>
  ELSE IF str_in(<<"t","x","t">>, cmd_lower) \/ str_in(<<"t","e","x","t">>, cmd_lower) THEN <<".","t","x","t">>
  ELSE IF str_in(<<"h","t","m","l">>, cmd_lower) THEN <<".","h","t","m","l">>
  ELSE IF str_in(<<"c","s","s">>, cmd_lower) THEN <<".","c","s","s">>
  ELSE IF str_in(<<"j","s">>, cmd_lower) \/ str_in(<<"j","a","v","a","s","c","r","i","p","t">>, cmd_lower) THEN <<".","j","s">>
  ELSE <<".","t","x","t">>

\* the request asks for a file, no earlier rule takes it and a word
\* introduces a name that is not empty without its quotes
named_file_request ==
  /\ Resolved /\ creating /\ str_in(<<"f","i","l","e">>, lower(last.line))
  /\ ~earlier_than_creation
  /\ file_keys # {}
  /\ strip(original_words[min_of(file_keys) + 1], Quotes) # <<>>

\* the name the request gives, without its quotes
extracted_name == strip(original_words[min_of(file_keys) + 1], Quotes)

\* C21: a name without a dot gets exactly the extension of the priority
\* order, and a name with a dot is returned as it is (compared without
\* regard to letter case).
C21_ExtensionByPriority ==
  named_file_request =>
    lower(last.natural_cmd) =
      <<"t","o","u","c","h"," ">> \o lower(extracted_name) \o
        (IF str_in(<<".">>, extracted_name) THEN <<>>
         ELSE extension_by_priority(lower(last.line)))

\* the names the patterns give when a request names nothing
DefaultNames == { <<"n","e","w","f","i","l","e",".","t","x","t">>, <<"n","e","w","f","o","l","d","e","r">>, <<"t","e","m","p">>, <<"t","e","m","p",".","t","x","t">> }

\* the verbs the patterns emit with a name after them
NamingVerbs == { <<"t","o","u","c","h">>, <<"r","m">>, <<"r","m","d","i","r">>, <<"m","k","d","i","r">> }

\* the name a resolved command carries: what follows its verb
emitted_name ==
  SubSeq(last.natural_cmd, Len(first_word(last.natural_cmd)) + 2, Len(last.natural_cmd))

\* the patterns resolved the request to a verb with a name
names_something ==
  /\ Resolved /\ last.natural_cmd # None
  /\ first_word(last.natural_cmd) \in NamingVerbs
  /\ Len(str_split(last.natural_cmd)) = 2

\* C22: the keywords are matched without regard to letter case - the
\* request and its lowercased form resolve to the same command up to letter
\* case - and the name emitted is a word of the request as typed, with or
\* without its quotes, with at most an extension added, unless it is a
\* default name.
C22_KeywordsAnyCaseNamesAsTyped ==
  /\ Resolved =>
       lower(last.natural_cmd) = fallback(app, lower(last.line))
  /\ names_something =>
       \/ emitted_name \in DefaultNames
       \/ \E i \in DOMAIN original_words : \E ext \in Extensions :
            \/ emitted_name = strip(original_words[i], Quotes) \o ext
            \/ emitted_name = original_words[i] \o ext

\* the target a resolved command carries: its last word, when it has a
\* verb that takes one
emitted_target ==
  LET cmd_words == str_split(last.natural_cmd)
  IN  cmd_words[Len(cmd_words)]

emits_target ==
  /\ Resolved /\ last.natural_cmd # None
  /\ first_word(last.natural_cmd) \in NamingVerbs \cup { <<"e","c","h","o">> }
  /\ Len(str_split(last.natural_cmd)) >= 2

\* C23: under every rule, the two-word form included, the target the
\* patterns emit neither starts nor ends with a quote character.
C23_TargetsWithoutQuotes ==
  emits_target =>
    /\ emitted_target[1] \notin Quotes
    /\ emitted_target[Len(emitted_target)] \notin Quotes

\* ------------------------------------------- claims about deletion

\* the request is a deletion request of streamlit_app.py for a file: more
\* than two words, a deletion word, no counting phrase, no folder word
deletion_request ==
  /\ Resolved /\ app = "web"
  /\ Len(original_words) > 2
  /\ any_in(delete_phrases, lower(last.line))
  /\ ~counting
  /\ ~any_in(folder_directory, lower(last.line))

\* the places of the words with a dot that do not start with one and are
\* not stop-words
dotted_places ==
  {i \in DOMAIN original_words :
     /\ str_in(<<".">>, original_words[i])
     /\ original_words[i][1] # "."
     /\ lower_words[i] \notin { <<"d","e","l","e","t","e">>, <<"r","e","m","o","v","e">>, <<"d","e","l">>, <<"f","i","l","e">>, <<"t","h","e">> }}

\* the places of "named", "called" and "file" that introduce a name
introducing_places ==
  {i \in 1..(Len(lower_words) - 1) :
     \/ lower_words[i] \in named_called
     \/ /\ lower_words[i] = <<"f","i","l","e">>
        /\ lower(strip(original_words[i + 1], Quotes)) \notin named_called}

\* the places of the action words followed by a word that is not a
\* stop-word
action_places ==
  {i \in 1..(Len(lower_words) - 1) :
     /\ lower_words[i] \in delete_phrases
     /\ lower(strip(original_words[i + 1], Quotes)) \notin
          { <<"t","h","e">>, <<"a">>, <<"a","n">>, <<"f","i","l","e">>, <<"n","a","m","e","d">>, <<"c","a","l","l","e","d">> }}

\* the target the precedence gives
target_by_precedence ==
  IF dotted_places # {} THEN strip(original_words[min_of(dotted_places)], Quotes)
  ELSE IF introducing_places # {}
    THEN strip(original_words[min_of(introducing_places) + 1], Quotes)
  ELSE IF action_places # {}
    THEN strip(original_words[min_of(action_places) + 1], Quotes)
  ELSE <<"t","e","m","p",".","t","x","t">>

\* C24: a deletion request for a file resolves to rm of the first dotted
\* word, else of the word a keyword introduces, else of the word after the
\* action word, else of temp.txt.
C24_DeletionPrecedence ==
  deletion_request => last.natural_cmd = <<"r","m"," ">> \o target_by_precedence

\* ------------------------------------------- claims about the dispatcher

\* the latest activation was on a line whose first word is a known verb
known_first ==
  strip(last.line, Whitespace) # <<>> /\ first_word(last.line) \in KnownCommands

\* the line holds an indicator, or more than two words with a common word
\* among them
indicator_or_common_word ==
  LET text == strip(lower(last.line), Whitespace)
      text_words == str_split(text)
  IN  \/ \E ind \in natural_indicators : str_in(ind, text)
      \/ Len(text_words) > 2 /\ \E i \in DOMAIN text_words : text_words[i] \in common_words

\* C25: a line goes to a built-in handler exactly when its first word is a
\* known verb, and then neither the resolution nor the service is
\* consulted; any other line is taken for natural language exactly when it
\* holds an indicator or has more than two words with a common word.
C25_LiteralIffKnownVerb ==
  (strip(last.line, Whitespace) # <<>> /\ app \in {"cli", "web"}) =>
    /\ last.route = "builtin" <=> known_first
    /\ known_first => ~last.ai_called /\ last.natural_cmd = None
    /\ ~known_first =>
         (last.route \in {"resolved", "not_understood"} <=> indicator_or_common_word)

\* a blank line has been entered
blank_entered == last.source = "user" /\ strip(last.line, Whitespace) = <<>>

\* C26: a blank line is dropped: it gives no output, reaches no handler,
\* is not resolved, the service is not asked, the filesystem and the
\* working directory stay as they are, and no blank line is ever in the
\* history.
C26_BlankLineDropped ==
  /\ blank_entered =>
       /\ last.results = <<>> /\ last.handler = ""
       /\ last.natural_cmd = None /\ ~last.ai_called /\ ~last.shell
       /\ fs = last.fs0 /\ cwd = last.cwd0
  /\ \A i \in DOMAIN command_history : strip(command_history[i], Whitespace) # <<>>

\* ------------------------------------------- claims about the history

\* C27: the Clear button empties the history; every other step leaves
\* the history it found as a prefix of the one it leaves, and when it adds
\* to it the line entered is the last record.
C27_HistoryAppendOnly ==
  [][IF PageClear THEN command_history' = <<>>
     ELSE /\ is_prefix(command_history, command_history')
          /\ command_history' # command_history =>
                command_history'[Len(command_history')] = last'.line]_vars

\* two different lines have been entered one after the other and stand in
\* the history in that order
C27_Witness ==
  /\ Len(command_history) = 2
  /\ command_history[2] = last.line
  /\ command_history[1] # command_history[2]

\* ------------------------------------------- claims about re-entry

\* C28: execute_command calls itself at most once for a line entered, and
\* the call it makes on a resolved command reaches a built-in handler and
\* resolves nothing further - with the patterns alone and with the service.
C28_ReentersAtMostOnce ==
  /\ last.depth <= 1
  /\ last.depth = 1 => (last.route = "builtin" /\ pending = None)

\* ------------------------------------------- claims about writing

\* the patterns of streamlit_app.py resolved the request entered to an echo
\* line, and execute_command has been called on that line
write_entered ==
  /\ app = "web" /\ last.source = "fallback" /\ last.depth = 1
  /\ Len(command_history) = 2
  /\ first_word(last.line) = <<"e","c","h","o">>

\* the content and the file the patterns took from the request
requested_content == write_content(str_split(command_history[1]))

requested_file == write_filename(str_split(command_history[1]))

\* C29: after the echo line a write request resolves to has been executed,
\* the file of the request holds exactly the content of the request and
\* every other entry of the filesystem is as it was.
C29_WriteRequestEndToEnd ==
  write_entered =>
    \E target \in {os_path_join(last.cwd0, requested_file)} :
      /\ target \in DOMAIN fs
      /\ fs[target] = FileNode(requested_content)
      /\ \A p \in (DOMAIN fs \cup DOMAIN last.fs0) \ {target} :
           p \in DOMAIN fs /\ p \in DOMAIN last.fs0 /\ fs[p] = last.fs0[p]

\* ------------------------------------------- claims about the service

\* the latest activation took its line for natural language
taken_for_natural == last.route \in {"resolved", "not_understood"}

\* what the latest activation shows about the flag: a status other than
\* 200 clears it; a connection error or a timeout leaves it as it was; a
\* natural-language line asks the service exactly when the flag was set,
\* and is resolved by the patterns when it was not
flag_rules ==
  /\ (last.ai_called /\ last.response.kind = "http_error") => ~ai_enabled
  /\ (last.ai_called /\ last.response.kind \in {"connection_error", "timeout"})
       => ai_enabled = last.ai_before
  /\ taken_for_natural =>
       /\ last.ai_called <=> last.ai_before
       /\ ~last.ai_before =>
            /\ fallback(app, last.line) # None => last.natural_cmd = fallback(app, last.line)
            /\ fallback(app, last.line) = None => last.route = "not_understood"

====
